---------------------------- MODULE Spec2Model ----------------------------
(***************************************************************************)
(* Build-and-serve pipeline of compact-portfolio.  The repository holds    *)
(* two implementations of the same server:                                 *)
(*   "server"    - src/server.js          (module-level functions)         *)
(*   "processor" - src/unnamed/part_001   (class AssetProcessor)           *)
(* Both are modelled; the variable impl says which one the process runs.   *)
(*                                                                         *)
(* Text is a sequence of one-character strings.  JavaScript regular        *)
(* expressions are transcribed as data (records) and run by a backtracking *)
(* matcher with JavaScript's priority order (greedy / lazy, leftmost       *)
(* alternative first), captures, backreferences and negative lookahead.    *)
(***************************************************************************)
EXTENDS Integers, Sequences, FiniteSets, TLC

(***************************************************************************)
(* Characters                                                              *)
(***************************************************************************)
LowerLetters ==
    {"a","b","c","d","e","f","g","h","i","j","k","l","m",
     "n","o","p","q","r","s","t","u","v","w","x","y","z"}

UpperLetters ==
    {"A","B","C","D","E","F","G","H","I","J","K","L","M",
     "N","O","P","Q","R","S","T","U","V","W","X","Y","Z"}

Digits == {"0","1","2","3","4","5","6","7","8","9"}

\* \w of a JavaScript regular expression
WordChars == LowerLetters \cup UpperLetters \cup Digits \cup {"_"}

\* \s of a JavaScript regular expression (the ASCII part)
SpaceChars == {" ", "\t", "\n", "\r", "\f"}

\* the line terminators "." does not match and "$" (flag m) stops at
LineTerminators == {"\n", "\r"}

\* the grave accent (U+0060), which opens a template literal; the character
\* itself cannot be written inside a string of this module
Backtick == "GRAVE"

HexDigits == Digits \cup {"a","b","c","d","e","f","A","B","C","D","E","F"}


(***************************************************************************)
(* Text helpers                                                            *)
(***************************************************************************)
RECURSIVE Flatten(_)
\* Array.prototype.join("") of a sequence of texts
Flatten(ss) ==
    IF ss = <<>> THEN <<>> ELSE Head(ss) \o Flatten(Tail(ss))

\* s.slice(from - 1, to - 1): the characters from..to-1 (1-based, to exclusive)
Slice(s, from, to) == SubSeq(s, from, to - 1)

\* the outcome of a chain of steps, each worked out before the next begins
Last(steps) == steps[Len(steps)]

\* F applied to the text x once x has been computed: the statements of a
\* function body run one after the other, each on the result of the last
Then(x, F(_)) == IF Len(x) >= 0 THEN F(x) ELSE x

\* String.prototype.trim
TrimStart(s) ==
    LET idx == {i \in 1..Len(s) : s[i] \notin SpaceChars}
    IN  IF idx = {} THEN <<>>
        ELSE SubSeq(s, CHOOSE i \in idx : \A j \in idx : i <= j, Len(s))

TrimEnd(s) ==
    LET idx == {i \in 1..Len(s) : s[i] \notin SpaceChars}
    IN  IF idx = {} THEN <<>>
        ELSE SubSeq(s, 1, CHOOSE i \in idx : \A j \in idx : i >= j)

Trim(s) == TrimEnd(TrimStart(s))

\* String.prototype.endsWith / startsWith at a position
StartsWithAt(s, i, lit) ==
    /\ i + Len(lit) - 1 <= Len(s)
    /\ SubSeq(s, i, i + Len(lit) - 1) = lit

EndsWith(s, lit) ==
    /\ Len(lit) <= Len(s)
    /\ SubSeq(s, Len(s) - Len(lit) + 1, Len(s)) = lit

(***************************************************************************)
(* Regular expressions as data, run by a backtracking matcher that follows *)
(* JavaScript's order of preference: a greedy repetition takes as many     *)
(* iterations as the rest of the expression allows, a lazy one as few, an  *)
(* alternation its leftmost alternative that lets the rest match.          *)
(* caps[n] = <<start, end>> of capture group n, end exclusive (<<0, 0>>    *)
(* while the group has not taken part).                                    *)
(***************************************************************************)
NoCaps == << <<0, 0>>, <<0, 0>>, <<0, 0>>, <<0, 0>> >>

\* constructors, named after the regular expression syntax they stand for
ReSet(cs)        == [t |-> "set", neg |-> FALSE, cs |-> cs]       \* [abc]
ReNot(cs)        == [t |-> "set", neg |-> TRUE,  cs |-> cs]       \* [^abc]
ReAny            == ReNot({})                                      \* [\s\S]
ReDot            == ReNot(LineTerminators)                         \* .
ReCh(c)          == ReSet({c})                                     \* c
ReSeq(rs)        == [t |-> "seq", rs |-> rs]                       \* r1r2...
ReAlt(rs)        == [t |-> "alt", rs |-> rs]                       \* r1|r2
ReRep(r, lo, hi, greedy) ==
    [t |-> "rep", r |-> r, lo |-> lo, hi |-> hi, greedy |-> greedy,
     count |-> 0]
ReStar(r)        == ReRep(r, 0, -1, TRUE)                          \* r*
RePlus(r)        == ReRep(r, 1, -1, TRUE)                          \* r+
ReLazyStar(r)    == ReRep(r, 0, -1, FALSE)                         \* r*?
ReLazyPlus(r)    == ReRep(r, 1, -1, FALSE)                         \* r+?
ReOpt(r)         == ReRep(r, 0, 1, TRUE)                           \* r?
ReAtLeast(r, n)  == ReRep(r, n, -1, TRUE)                          \* r{n,}
ReGrp(n, r)      == [t |-> "grp", n |-> n, r |-> r]                \* (r)
ReRef(n)         == [t |-> "ref", n |-> n]                         \* \n
ReNotAhead(r)    == [t |-> "nla", r |-> r]                         \* (?!r)
ReWordB          == [t |-> "wb"]                                   \* \b
ReEol            == [t |-> "eol"]                                  \* $ (flag m)
ReBos            == [t |-> "bos"]                                  \* ^
ReEos            == [t |-> "eos"]                                  \* $
\* a literal text
ReLit(lit)       == ReSeq([k \in 1..Len(lit) |-> ReCh(lit[k])])

\* a literal text under flag i: each letter matches in both cases
UpperOf(c) ==
    CASE c = "a" -> "A" [] c = "b" -> "B" [] c = "c" -> "C" [] c = "d" -> "D"
      [] c = "e" -> "E" [] c = "f" -> "F" [] c = "g" -> "G" [] c = "h" -> "H"
      [] c = "i" -> "I" [] c = "j" -> "J" [] c = "k" -> "K" [] c = "l" -> "L"
      [] c = "m" -> "M" [] c = "n" -> "N" [] c = "o" -> "O" [] c = "p" -> "P"
      [] c = "q" -> "Q" [] c = "r" -> "R" [] c = "s" -> "S" [] c = "t" -> "T"
      [] c = "u" -> "U" [] c = "v" -> "V" [] c = "w" -> "W" [] c = "x" -> "X"
      [] c = "y" -> "Y" [] c = "z" -> "Z" [] OTHER -> c

LowerOf(c) ==
    IF c \in UpperLetters
    THEN CHOOSE l \in LowerLetters : UpperOf(l) = c
    ELSE c

BothCases(c) == {LowerOf(c), UpperOf(LowerOf(c))}

ReLitI(lit)      == ReSeq([k \in 1..Len(lit) |-> ReSet(BothCases(lit[k]))])

IsWordAt(s, i) == i >= 1 /\ i <= Len(s) /\ s[i] \in WordChars

SetMatches(r, c) == (c \in r.cs) # r.neg

MinOf(S) == CHOOSE x \in S : \A y \in S : x <= y
MaxOf(S) == CHOOSE x \in S : \A y \in S : x >= y

\* the index after the run of characters of class r that starts at i
RunEnd(r, s, i) ==
    LET stops == {j \in i..Len(s) : ~SetMatches(r, s[j])}
    IN  IF stops = {} THEN Len(s) + 1 ELSE MinOf(stops)

\* bookkeeping nodes of the matcher: the end of capture group n opened at
\* start, and the check that an iteration begun at pos consumed something
ReEndGrp(n, start) == [t |-> "end", n |-> n, start |-> start]
ReProgress(pos)    == [t |-> "chk", pos |-> pos]

RECURSIVE IsFixed(_)
\* r is built of character classes, assertions and back references only, so
\* that from a given index it can match in one way at most
IsFixed(r) ==
    \/ r.t \in {"set", "nla", "wb", "bos", "eos", "eol", "ref"}
    \/ r.t = "seq" /\ \A k \in 1..Len(r.rs) : IsFixed(r.rs[k])

\* the alternatives of r
Alternatives(r) == IF r.t = "alt" THEN r.rs ELSE <<r>>

\* r is an alternation of such expressions
IsFixedChoice(r) ==
    \A k \in 1..Len(Alternatives(r)) : IsFixed(Alternatives(r)[k])

RECURSIVE Run(_, _, _, _)
RECURSIVE Chain(_, _, _, _, _)
\* the indices a repetition of r reaches from p, one iteration after the
\* other, in at most "left" iterations (-1: any number), for an r of
\* IsFixedChoice; it ends with -1 where two alternatives of r lead to
\* different indices, which leaves the choice to what follows
Chain(r, s, p, caps, left) ==
    LET alts == Alternatives(r)
        ends == {Run(<<alts[k]>>, s, p, caps)[1] :
                   k \in {j \in 1..Len(alts) : Run(<<alts[j]>>, s, p, caps) # <<>>}}
                \ {p}
    IN  IF ends = {} \/ left = 0 THEN <<p>>
        ELSE IF Cardinality(ends) > 1 THEN <<p, -1>>
        ELSE <<p>> \o Chain(r, s, CHOOSE e \in ends : TRUE, caps,
                            IF left = -1 THEN -1 ELSE left - 1)

\* the tries that matched, among pairs <<k, result of Run>>
Successes(tries) == {x \in tries : x[2] # <<>>}

\* the result of the try with the greatest k (greedy) or the least k
Preferred(good, greedy) ==
    IF good = {} THEN <<>>
    ELSE IF greedy
         THEN (CHOOSE x \in good : \A y \in good : x[1] >= y[1])[2]
         ELSE (CHOOSE x \in good : \A y \in good : x[1] <= y[1])[2]

RECURSIVE Repeat(_, _, _, _, _, _)
\* the preferred way the expressions todo match s one after the other from
\* index i: <<end, caps>>, or <<>> when there is none
Run(todo, s, i, caps) ==
    IF todo = <<>> THEN <<i, caps>>
    ELSE
    LET r    == Head(todo)
        rest == Tail(todo)
        step == Run(rest, s, i, caps)
    IN  CASE r.t = "set" ->
                IF i <= Len(s) /\ SetMatches(r, s[i])
                THEN Run(rest, s, i + 1, caps) ELSE <<>>
          [] r.t = "seq" -> Run(r.rs \o rest, s, i, caps)
          [] r.t = "alt" ->
                Preferred(Successes({<<k, Run(<<r.rs[k]>> \o rest, s, i, caps)>> :
                                       k \in 1..Len(r.rs)}), FALSE)
          [] r.t = "rep" /\ r.r.t = "set" ->
                LET room == RunEnd(r.r, s, i) - i
                    most == IF r.hi # -1 /\ r.hi < room THEN r.hi ELSE room
                IN  Preferred(Successes({<<k, Run(rest, s, i + k, caps)>> :
                                           k \in r.lo..most}), r.greedy)
          [] r.t = "rep" /\ r.r.t # "set" ->
                Repeat(r, rest, s, i, caps,
                       IF r.count = 0 /\ IsFixedChoice(r.r)
                       THEN Chain(r.r, s, i, caps, r.hi) ELSE <<-1>>)
          [] r.t = "chk" -> IF i = r.pos THEN <<>> ELSE step
          [] r.t = "grp" ->
                Run(<<r.r, ReEndGrp(r.n, i)>> \o rest, s, i, caps)
          [] r.t = "end" ->
                Run(rest, s, i, [caps EXCEPT ![r.n] = <<r.start, i>>])
          [] r.t = "ref" ->
                LET c   == caps[r.n]
                    txt == IF c = <<0, 0>> THEN <<>> ELSE Slice(s, c[1], c[2])
                IN  IF StartsWithAt(s, i, txt)
                    THEN Run(rest, s, i + Len(txt), caps) ELSE <<>>
          [] r.t = "nla" ->
                IF Run(<<r.r>>, s, i, caps) = <<>> THEN step ELSE <<>>
          [] r.t = "wb" ->
                IF IsWordAt(s, i - 1) # IsWordAt(s, i) THEN step ELSE <<>>
          [] r.t = "eol" ->
                IF i = Len(s) + 1 \/ (i <= Len(s) /\ s[i] \in LineTerminators)
                THEN step ELSE <<>>
          [] r.t = "bos" -> IF i = 1 THEN step ELSE <<>>
          [] r.t = "eos" -> IF i = Len(s) + 1 THEN step ELSE <<>>

\* the repetition r, followed by rest: along the chain of indices its
\* iterations reach where that chain is determined, else one iteration at a
\* time, each of which has to consume something
Repeat(r, rest, s, i, caps, chain) ==
    IF Last(chain) # -1
    THEN Preferred(Successes({<<k, Run(rest, s, chain[k + 1], caps)>> :
                                k \in r.lo..(Len(chain) - 1)}), r.greedy)
    ELSE LET again == IF r.hi # -1 /\ r.count >= r.hi THEN <<>>
                      ELSE Run(<<r.r, ReProgress(i),
                                 [r EXCEPT !.count = r.count + 1]>>
                               \o rest, s, i, caps)
             stop  == IF r.count >= r.lo THEN Run(rest, s, i, caps) ELSE <<>>
         IN  IF r.greedy
             THEN (IF again # <<>> THEN again ELSE stop)
             ELSE (IF stop # <<>> THEN stop ELSE again)

\* the leftmost of the tries <<start, result of Run>> that matched, as
\* <<start, end, caps>>
Leftmost(good) ==
    IF good = {} THEN <<>>
    ELSE LET first == CHOOSE x \in good : \A y \in good : x[1] <= y[1]
         IN  <<first[1], first[2][1], first[2][2]>>

\* RegExp.prototype.exec from index "from": the leftmost match
\* <<start, end, caps>>, or <<>> when there is none
Exec(re, s, from) ==
    Leftmost(Successes({<<p, Run(<<re>>, s, p, NoCaps)>> :
                          p \in from..(Len(s) + 1)}))

\* RegExp.prototype.test
Test(re, s) == Exec(re, s, 1) # <<>>

\* all matches of a global regular expression, as String.prototype.replace
\* and match walk them: after an empty match the search moves on by one
RECURSIVE ExecAll(_, _, _)
\* the match m and those after it
MatchesFrom(re, s, m) ==
    IF m = <<>> THEN <<>>
    ELSE <<m>> \o ExecAll(re, s, IF m[2] = m[1] THEN m[2] + 1 ELSE m[2])

ExecAll(re, s, from) == MatchesFrom(re, s, Exec(re, s, from))

\* text of a match and of its capture group n ("$&", "$n")
Matched(s, m) == Slice(s, m[1], m[2])
Group(s, m, n) ==
    IF m[3][n] = <<0, 0>> THEN <<>> ELSE Slice(s, m[3][n][1], m[3][n][2])

\* s with the matches ms replaced, By(s, m) being the replacement of m
Splice(s, ms, By(_, _)) ==
    LET n      == Len(ms)
        gap(k) == Slice(s, IF k = 1 THEN 1 ELSE ms[k - 1][2], ms[k][1])
        rest   == IF n = 0 THEN s ELSE Slice(s, ms[n][2], Len(s) + 1)
    IN  Flatten([k \in 1..n |-> gap(k) \o By(s, ms[k])]) \o rest

\* s.replace(re, replacer) for a global re
ReplaceAll(re, s, By(_, _)) == Splice(s, ExecAll(re, s, 1), By)

\* s.match(re) || [] for a global re: the matched texts
Texts(s, ms) == [k \in 1..Len(ms) |-> Matched(s, ms[k])]

MatchAll(re, s) == Texts(s, ExecAll(re, s, 1))

(***************************************************************************)
(* Buffers are sequences of bytes.  Texts in the model are ASCII, so       *)
(* Buffer.from(text, "utf8") is one byte per character.                    *)
(***************************************************************************)
\* the printable ASCII characters, in code order from 32
Printable ==
    <<" ", "!", "\"", "#", "$", "%", "&", "'", "(", ")", "*", "+", ",", "-",
      ".", "/", "0", "1", "2", "3", "4", "5", "6", "7", "8", "9", ":", ";",
      "<", "=", ">", "?", "@", "A", "B", "C", "D", "E", "F", "G", "H", "I",
      "J", "K", "L", "M", "N", "O", "P", "Q", "R", "S", "T", "U", "V", "W",
      "X", "Y", "Z", "[", "\\", "]", "^", "_", Backtick, "a", "b", "c", "d", "e",
      "f", "g", "h", "i", "j", "k", "l", "m", "n", "o", "p", "q", "r", "s",
      "t", "u", "v", "w", "x", "y", "z", "{", "|", "}", "~">>

CharCode(c) ==
    CASE c = "\t" -> 9 [] c = "\n" -> 10 [] c = "\f" -> 12 [] c = "\r" -> 13
      [] OTHER -> 31 + CHOOSE k \in 1..Len(Printable) : Printable[k] = c

\* Buffer.from(text, "utf8")
BufferFrom(text) == [k \in 1..Len(text) |-> CharCode(text[k])]

(***************************************************************************)
(* etag: 32-bit FNV-1a.  A 32-bit word is kept as <<high 16, low 16>>, so  *)
(* that no intermediate value leaves the integers the checker computes in. *)
(***************************************************************************)
\* 2166136261 >>> 0 = 0x811c9dc5
FnvOffsetHi == 33052
FnvOffsetLo == 40389
\* 16777619 = 0x01000193
FnvPrime == 16777619

\* bit k of a, and a ^ b on bytes
Bit(a, k) == (a \div (2 ^ k)) % 2
XorBit(a, b, k) == ((Bit(a, k) + Bit(b, k)) % 2) * (2 ^ k)
Xor8(a, b) ==
    XorBit(a, b, 0) + XorBit(a, b, 1) + XorBit(a, b, 2) + XorBit(a, b, 3)
        + XorBit(a, b, 4) + XorBit(a, b, 5) + XorBit(a, b, 6) + XorBit(a, b, 7)

\* h ^= byte: a byte reaches the low eight bits only
XorByte(h, byte) ==
    <<h[1], ((h[2] \div 256) * 256) + Xor8(h[2] % 256, byte)>>

\* a faulty multiplication: the product of the low word of h and the high
\* word of k is left out
ImulLowWord(h, k) ==
    LET kl  == k % 65536
        low == h[2] * kl
    IN  <<((h[1] * kl) + (low \div 65536)) % 65536, low % 65536>>

\* Math.imul(h, k): the low 32 bits of the product
Imul(h, k) ==
    LET kh  == k \div 65536
        kl  == k % 65536
        low == h[2] * kl
        mid == ((h[1] * kl) + (h[2] * kh) + (low \div 65536)) % 65536
    IN  <<mid, low % 65536>>

RECURSIVE FnvFold(_, _, _, _)
\* the loop of etag over the bytes i..j of buf, h the checksum before them:
\* the first half of the bytes, then the second
FnvFold(buf, i, j, h) ==
    IF i > j THEN h
    ELSE IF i = j THEN Imul(XorByte(h, buf[i]), FnvPrime)
    ELSE LET half  == (i + j) \div 2
             first == FnvFold(buf, i, half, h)
         IN  Last(<<first, FnvFold(buf, half + 1, j, first)>>)

Fnv1a(buf) == FnvFold(buf, 1, Len(buf), <<FnvOffsetHi, FnvOffsetLo>>)

HexDigit(d) == SubSeq(<<"0","1","2","3","4","5","6","7","8","9",
                        "a","b","c","d","e","f">>, d + 1, d + 1)

RECURSIVE ToRadix(_, _)
\* Number.prototype.toString(radix) of a natural number
ToRadix(n, radix) ==
    IF n < radix THEN HexDigit(n)
    ELSE ToRadix(n \div radix, radix) \o HexDigit(n % radix)

\* (h >>> 0).toString(16): no leading zeros
WordToHex(h) ==
    IF h[1] = 0 THEN ToRadix(h[2], 16)
    ELSE LET low == ToRadix(h[2], 16)
         IN  ToRadix(h[1], 16)
             \o [k \in 1..(4 - Len(low)) |-> "0"] \o low

\* etag(buf): W/ then, in double quotes, the hex checksum, a dash and the length
etag(buf) ==
    <<"W", "/", "\"">> \o WordToHex(Fnv1a(buf)) \o <<"-">>
        \o ToRadix(Len(buf), 10) \o <<"\"">>

\* crypto.createHash("sha256").update(content).digest("base64"): a digest
\* stands for the content it was computed from (no two contents collide)
calculateHash(content) == <<"sha256", content>>

(***************************************************************************)
(* CSP synthesizer.  cspHashes is [scripts, styles]: two JavaScript Sets,  *)
(* kept as sequences without repetition (a Set iterates in insertion       *)
(* order).  The policy text is kept by its structure: a sequence of        *)
(* directives (joined by "; " in the code), each a sequence of words       *)
(* (joined by " ").                                                        *)
(***************************************************************************)
\* Set.prototype.add
SetAdd(set, x) ==
    IF \E k \in 1..Len(set) : set[k] = x THEN set ELSE Append(set, x)

RECURSIVE SetAddAll(_, _)
SetAddAll(set, xs) ==
    IF xs = <<>> THEN set ELSE SetAddAll(SetAdd(set, Head(xs)), Tail(xs))

\* a directive: [name, sources]; a source expression is a pair, either a
\* keyword or scheme such as 'self', or the quoted 'sha256-<digest>'
Directive(name, sources) == [name |-> name, sources |-> sources]
Keyword(word) == <<word, <<"none", <<>>>>>>
Sha256Source(hash) == <<"'sha256-", hash>>

\* /<script(?![^>]*src=)[^>]*>([\s\S]*?)<\/script>/gi
InlineScriptRe ==
    ReSeq(<<ReLitI(<<"<", "s", "c", "r", "i", "p", "t">>),
            ReNotAhead(ReSeq(<<ReStar(ReNot({">"})), ReLitI(<<"s", "r", "c", "=">>)>>)),
            ReStar(ReNot({">"})), ReCh(">"),
            ReGrp(1, ReLazyStar(ReAny)),
            ReLitI(<<"<", "/", "s", "c", "r", "i", "p", "t", ">">>)>>)

\* /<style[^>]*>([\s\S]*?)<\/style>/gi
InlineStyleRe ==
    ReSeq(<<ReLitI(<<"<", "s", "t", "y", "l", "e">>), ReStar(ReNot({">"})), ReCh(">"),
            ReGrp(1, ReLazyStar(ReAny)),
            ReLitI(<<"<", "/", "s", "t", "y", "l", "e", ">">>)>>)

\* /<script[^>]*>|<\/script>/gi and /<style[^>]*>|<\/style>/gi  (server.js)
ScriptTagRe ==
    ReAlt(<<ReSeq(<<ReLitI(<<"<", "s", "c", "r", "i", "p", "t">>), ReStar(ReNot({">"})), ReCh(">")>>),
            ReLitI(<<"<", "/", "s", "c", "r", "i", "p", "t", ">">>)>>)

StyleTagRe ==
    ReAlt(<<ReSeq(<<ReLitI(<<"<", "s", "t", "y", "l", "e">>), ReStar(ReNot({">"})), ReCh(">")>>),
            ReLitI(<<"<", "/", "s", "t", "y", "l", "e", ">">>)>>)

\* /<\/?script[^>]*>/gi and /<\/?style[^>]*>/gi  (AssetProcessor)
AnyScriptTagRe ==
    ReSeq(<<ReCh("<"), ReOpt(ReCh("/")), ReLitI(<<"s", "c", "r", "i", "p", "t">>),
            ReStar(ReNot({">"})), ReCh(">")>>)

AnyStyleTagRe ==
    ReSeq(<<ReCh("<"), ReOpt(ReCh("/")), ReLitI(<<"s", "t", "y", "l", "e">>),
            ReStar(ReNot({">"})), ReCh(">")>>)

Erase(s, m) == <<>>

\* the non-empty trimmed bodies of the blocks blockRe finds in html
InlineBodies(html, blockRe, tagRe) ==
    LET blocks == MatchAll(blockRe, html)
        bodies == [k \in 1..Len(blocks) |->
                      Trim(ReplaceAll(tagRe, blocks[k], Erase))]
    IN  SelectSeq(bodies, LAMBDA b : b # <<>>)

HashesOf(bodies) == [k \in 1..Len(bodies) |-> calculateHash(bodies[k])]
SourcesOf(hashes) == [k \in 1..Len(hashes) |-> Sha256Source(hashes[k])]

\* the module's (the object's) two Sets of hashes: [scripts, styles]
VARIABLE cspHashes

\* Set.prototype.clear
Clear(set) == <<>>

\* server.js extractInlineContent: the Sets hold source expressions
extractInlineContent(html) ==
    [scripts |-> SetAddAll(Clear(cspHashes.scripts),
        SourcesOf(HashesOf(InlineBodies(html, InlineScriptRe, ScriptTagRe)))),
     styles  |-> SetAddAll(Clear(cspHashes.styles),
        SourcesOf(HashesOf(InlineBodies(html, InlineStyleRe, StyleTagRe))))]

\* AssetProcessor.extractCSPHashes: the Sets hold bare digests
extractCSPHashes(html) ==
    [scripts |-> SetAddAll(Clear(cspHashes.scripts),
        HashesOf(InlineBodies(html, InlineScriptRe, AnyScriptTagRe))),
     styles  |-> SetAddAll(Clear(cspHashes.styles),
        HashesOf(InlineBodies(html, InlineStyleRe, AnyStyleTagRe)))]

\* server.js generateCSP: both directives fall back to 'unsafe-inline'
ServerScriptSrc(hashes) ==
    <<Keyword("'self'")>> \o hashes
        \o (IF Len(hashes) = 0 THEN <<Keyword("'unsafe-inline'")>> ELSE <<>>)

ServerStyleSrc(hashes) ==
    <<Keyword("'self'")>> \o hashes
        \o (IF Len(hashes) = 0 THEN <<Keyword("'unsafe-inline'")>> ELSE <<>>)

ServerGenerateCSP(hashes) ==
    << Directive("default-src", <<Keyword("'self'")>>),
       Directive("script-src", ServerScriptSrc(hashes.scripts)),
       Directive("style-src", ServerStyleSrc(hashes.styles)),
       Directive("img-src", <<Keyword("'self'"), Keyword("data:"), Keyword("https:")>>),
       Directive("font-src", <<Keyword("'self'")>>),
       Directive("connect-src", <<Keyword("'self'")>>),
       Directive("media-src", <<Keyword("'self'")>>),
       Directive("object-src", <<Keyword("'none'")>>),
       Directive("child-src", <<Keyword("'none'")>>),
       Directive("worker-src", <<Keyword("'none'")>>),
       Directive("frame-ancestors", <<Keyword("'none'")>>),
       Directive("form-action", <<Keyword("'self'")>>),
       Directive("base-uri", <<Keyword("'self'")>>),
       Directive("manifest-src", <<Keyword("'self'")>>) >>

\* AssetProcessor.generateCSP: only the style directives fall back
ProcessorScriptSrc(hashes) == <<Keyword("'self'")>> \o SourcesOf(hashes)

ProcessorStyleSrc(hashes) ==
    <<Keyword("'self'")>>
        \o (IF Len(hashes) # 0 THEN SourcesOf(hashes)
            ELSE <<Keyword("'unsafe-inline'")>>)

ProcessorGenerateCSP(hashes) ==
    << Directive("default-src", <<Keyword("'self'")>>),
       Directive("script-src", ProcessorScriptSrc(hashes.scripts)),
       Directive("script-src-elem", ProcessorScriptSrc(hashes.scripts)),
       Directive("style-src", ProcessorStyleSrc(hashes.styles)),
       Directive("style-src-elem", ProcessorStyleSrc(hashes.styles)),
       Directive("img-src", <<Keyword("'self'"), Keyword("https:"), Keyword("data:")>>),
       Directive("font-src", <<Keyword("'self'")>>),
       Directive("connect-src", <<Keyword("'self'")>>),
       Directive("media-src", <<Keyword("'self'"), Keyword("data:")>>),
       Directive("object-src", <<Keyword("'none'")>>),
       Directive("child-src", <<Keyword("'none'")>>),
       Directive("worker-src", <<Keyword("'none'")>>),
       Directive("frame-ancestors", <<Keyword("'none'")>>),
       Directive("form-action", <<Keyword("'self'")>>),
       Directive("base-uri", <<Keyword("'self'")>>),
       Directive("manifest-src", <<Keyword("'self'")>>),
       Directive("upgrade-insecure-requests", <<>>) >>

(***************************************************************************)
(* Minifiers.  Each regular expression is named after the step it serves   *)
(* and carries the source text of the expression as its comment.           *)
(***************************************************************************)
Ws  == ReSet(SpaceChars)          \* \s
Dig == ReSet(Digits)              \* \d
Hex == ReSet(HexDigits)           \* [0-9a-fA-F]

KeepGroup1(s, m) == Group(s, m, 1)
ToSpace(s, m)    == <<" ">>

\* /\/\*[\s\S]*?\*\//g
BlockCommentRe == ReSeq(<<ReLit(<<"/", "*">>), ReLazyStar(ReAny), ReLit(<<"*", "/">>)>>)
\* /\s+/g
WsRunRe == RePlus(Ws)
\* /\s*([{}:;,>+~\(\)\[\]'"*\/])\s*/g
CssPunctRe ==
    ReSeq(<<ReStar(Ws),
            ReGrp(1, ReSet({"{", "}", ":", ";", ",", ">", "+", "~", "(", ")",
                            "[", "]", "'", "\"", "*", "/"})),
            ReStar(Ws)>>)
\* /;}/g
SemiBraceRe == ReLit(<<";", "}">>)
\* /\b0+(px|em|rem|vh|vw|%|s|ms)\b/g
ZeroUnitRe ==
    ReSeq(<<ReWordB, RePlus(ReCh("0")),
            ReGrp(1, ReAlt(<<ReLit(<<"p", "x">>), ReLit(<<"e", "m">>), ReLit(<<"r", "e", "m">>),
                             ReLit(<<"v", "h">>), ReLit(<<"v", "w">>), ReLit(<<"%">>),
                             ReLit(<<"s">>), ReLit(<<"m", "s">>)>>)),
            ReWordB>>)
\* /\b0+\.(\d+)/g
LeadingZeroRe ==
    ReSeq(<<ReWordB, RePlus(ReCh("0")), ReCh("."), ReGrp(1, RePlus(Dig))>>)
\* /#([0-9a-fA-F])\1([0-9a-fA-F])\2([0-9a-fA-F])\3\b/g
HexPairsRe ==
    ReSeq(<<ReCh("#"), ReGrp(1, Hex), ReRef(1), ReGrp(2, Hex), ReRef(2),
            ReGrp(3, Hex), ReRef(3), ReWordB>>)
\* /rgb\(\s*(\d+)\s*,\s*(\d+)\s*,\s*(\d+)\s*\)/g
RgbRe ==
    ReSeq(<<ReLit(<<"r", "g", "b", "(">>), ReStar(Ws), ReGrp(1, RePlus(Dig)), ReStar(Ws),
            ReCh(","), ReStar(Ws), ReGrp(2, RePlus(Dig)), ReStar(Ws),
            ReCh(","), ReStar(Ws), ReGrp(3, RePlus(Dig)), ReStar(Ws),
            ReCh(")")>>)
\* /,\s+/g  /:\s+/g  /;\s+/g  /\{\s+/g  />\s+/g  /\+\s+/g  /~\s+/g
AfterRe(c) == ReSeq(<<ReCh(c), RePlus(Ws)>>)
\* /\s+\}/g
WsBraceRe == ReSeq(<<RePlus(Ws), ReCh("}")>>)
\* /\r?\n/g
NewlineRe == ReSeq(<<ReOpt(ReCh("\r")), ReCh("\n")>>)

RECURSIVE ParseInt(_, _)
\* parseInt(digits), acc the value of the digits read so far
ParseInt(digits, acc) ==
    IF digits = <<>> THEN acc
    ELSE ParseInt(Tail(digits),
                  10 * acc + (CHOOSE d \in 0..9 : HexDigit(d) = <<Head(digits)>>))

\* String.prototype.padStart(2, "0")
PadStart2(s) == IF Len(s) < 2 THEN [k \in 1..(2 - Len(s)) |-> "0"] \o s ELSE s

\* parseInt(n).toString(16).padStart(2, "0")
toHex(n) == PadStart2(ToRadix(ParseInt(n, 0), 16))

RgbToHex(s, m) ==
    <<"#">> \o toHex(Group(s, m, 1)) \o toHex(Group(s, m, 2))
            \o toHex(Group(s, m, 3))

HexTriple(s, m) ==
    <<"#">> \o Group(s, m, 1) \o Group(s, m, 2) \o Group(s, m, 3)

ToZero(s, m)       == <<"0">>
ToBrace(s, m)      == <<"}">>
DotGroup1(s, m)    == <<".">> \o Group(s, m, 1)
FirstChar(s, m)    == <<s[m[1]]>>

\* the steps the two CSS minifiers share, up to the expansion of rgb()
CssCommon1(src) ==
    Then(ReplaceAll(BlockCommentRe, src, Erase), LAMBDA s1 :
    Then(ReplaceAll(WsRunRe, s1, ToSpace), LAMBDA s2 :
    Then(ReplaceAll(CssPunctRe, s2, KeepGroup1), LAMBDA s3 :
    Then(ReplaceAll(SemiBraceRe, s3, ToBrace), LAMBDA s4 :
    ReplaceAll(ZeroUnitRe, s4, ToZero)))))

CssColours(src) ==
    Then(ReplaceAll(HexPairsRe, src, HexTriple), LAMBDA s1 :
    ReplaceAll(RgbRe, s1, RgbToHex))

\* the closing steps: /,\s+/ /:\s+/ /;\s+/ /\{\s+/ /\s+\}/
CssTighten(src) ==
    Then(ReplaceAll(AfterRe(","), src, FirstChar), LAMBDA s1 :
    Then(ReplaceAll(AfterRe(":"), s1, FirstChar), LAMBDA s2 :
    Then(ReplaceAll(AfterRe(";"), s2, FirstChar), LAMBDA s3 :
    Then(ReplaceAll(AfterRe("{"), s3, FirstChar), LAMBDA s4 :
    ReplaceAll(WsBraceRe, s4, ToBrace)))))

\* AssetProcessor.minifyCSS
ProcessorMinifyCSS(src) ==
    Then(CssCommon1(src), LAMBDA s1 :
    Then(CssColours(s1), LAMBDA s2 :
    Then(CssTighten(s2), LAMBDA s3 :
    Trim(ReplaceAll(NewlineRe, s3, Erase)))))

\* /calc\(\s*([^)]+)\s*\)/g
CalcRe ==
    ReSeq(<<ReLit(<<"c", "a", "l", "c", "(">>), ReStar(Ws), ReGrp(1, RePlus(ReNot({")"}))),
            ReStar(Ws), ReCh(")")>>)
CalcBy(s, m) ==
    <<"c", "a", "l", "c", "(">> \o ReplaceAll(WsRunRe, Group(s, m, 1), Erase) \o <<")">>

\* /(['"])([a-zA-Z0-9\-_]+)\1/g
IdentChars == LowerLetters \cup UpperLetters \cup Digits \cup {"-", "_"}
QuotedIdentRe ==
    ReSeq(<<ReGrp(1, ReSet({"'", "\""})), ReGrp(2, RePlus(ReSet(IdentChars))),
            ReRef(1)>>)
\* /^[a-zA-Z\-_][a-zA-Z0-9\-_]*$/
IdentRe ==
    ReSeq(<<ReBos, ReSet(IdentChars \ Digits), ReStar(ReSet(IdentChars)),
            ReEos>>)
UnquoteBy(s, m) ==
    IF Test(IdentRe, Group(s, m, 2)) THEN Group(s, m, 2) ELSE Matched(s, m)

\* /([^{}]+)\{([^}]*)\}([^{}]+)\{([^}]*)\}/g
RulePairRe ==
    ReSeq(<<ReGrp(1, RePlus(ReNot({"{", "}"}))), ReCh("{"),
            ReGrp(2, ReStar(ReNot({"}"}))), ReCh("}"),
            ReGrp(3, RePlus(ReNot({"{", "}"}))), ReCh("{"),
            ReGrp(4, ReStar(ReNot({"}"}))), ReCh("}")>>)
MergeRulesBy(s, m) ==
    IF Group(s, m, 2) = Group(s, m, 4)
    THEN Group(s, m, 1) \o <<",">> \o Group(s, m, 3) \o <<"{">>
         \o Group(s, m, 2) \o <<"}">>
    ELSE Matched(s, m)

\* /[^{}]+\{\s*\}/g
EmptyRuleRe ==
    ReSeq(<<RePlus(ReNot({"{", "}"})), ReCh("{"), ReStar(Ws), ReCh("}")>>)

RECURSIVE SplitWs(_, _)
\* text.split(/\s+/): cur is the part being read
SplitWs(text, cur) ==
    IF text = <<>> THEN <<cur>>
    ELSE IF Head(text) \in SpaceChars
         THEN <<cur>> \o SplitWs(TrimStart(text), <<>>)
         ELSE SplitWs(Tail(text), Append(cur, Head(text)))

\* /(margin|padding):([^;]+)/g
BoxShorthandRe ==
    ReSeq(<<ReGrp(1, ReAlt(<<ReLit(<<"m", "a", "r", "g", "i", "n">>), ReLit(<<"p", "a", "d", "d", "i", "n", "g">>)>>)), ReCh(":"),
            ReGrp(2, RePlus(ReNot({";"})))>>)
BoxShorthandBy(s, m) ==
    LET prop  == Group(s, m, 1)
        parts == SplitWs(Trim(Group(s, m, 2)), <<>>)
    IN  IF Len(parts) = 4
        THEN IF parts[1] = parts[2] /\ parts[2] = parts[3] /\ parts[3] = parts[4]
             THEN prop \o <<":">> \o parts[1]
             ELSE IF parts[1] = parts[3] /\ parts[2] = parts[4]
                  THEN prop \o <<":">> \o parts[1] \o <<" ">> \o parts[2]
                  ELSE Matched(s, m)
        ELSE IF Len(parts) = 2 /\ parts[1] = parts[2]
             THEN prop \o <<":">> \o parts[1]
             ELSE Matched(s, m)

\* /border-radius:([^;]+)/g
BorderRadiusRe ==
    ReSeq(<<ReLit(<<"b", "o", "r", "d", "e", "r", "-", "r", "a", "d", "i", "u", "s", ":">>), ReGrp(1, RePlus(ReNot({";"})))>>)
BorderRadiusBy(s, m) ==
    LET parts == SplitWs(Trim(Group(s, m, 1)), <<>>)
    IN  IF Len(parts) = 4 /\ \A k \in 1..4 : parts[k] = parts[1]
        THEN <<"b", "o", "r", "d", "e", "r", "-", "r", "a", "d", "i", "u", "s", ":">> \o parts[1]
        ELSE Matched(s, m)

\* /-webkit-(transform|transition|animation|box-shadow|border-radius):/g
\* /-moz-(transform|transition|animation|box-shadow|border-radius):/g
PrefixedRe(prefix) ==
    ReSeq(<<ReLit(prefix),
            ReGrp(1, ReAlt(<<ReLit(<<"t", "r", "a", "n", "s", "f", "o", "r", "m">>), ReLit(<<"t", "r", "a", "n", "s", "i", "t", "i", "o", "n">>),
                             ReLit(<<"a", "n", "i", "m", "a", "t", "i", "o", "n">>), ReLit(<<"b", "o", "x", "-", "s", "h", "a", "d", "o", "w">>),
                             ReLit(<<"b", "o", "r", "d", "e", "r", "-", "r", "a", "d", "i", "u", "s">>)>>)),
            ReCh(":")>>)
\* /-ms-(transform|transition|animation):/g
MsPrefixedRe ==
    ReSeq(<<ReLit(<<"-", "m", "s", "-">>),
            ReGrp(1, ReAlt(<<ReLit(<<"t", "r", "a", "n", "s", "f", "o", "r", "m">>), ReLit(<<"t", "r", "a", "n", "s", "i", "t", "i", "o", "n">>),
                             ReLit(<<"a", "n", "i", "m", "a", "t", "i", "o", "n">>)>>)),
            ReCh(":")>>)
UnprefixBy(s, m) == Group(s, m, 1) \o <<":">>

\* /translate\(\s*([^,]+)\s*,\s*([^)]+)\s*\)/g, /scale\(...\)/g
PairCallRe(name) ==
    ReSeq(<<ReLit(name), ReCh("("), ReStar(Ws),
            ReGrp(1, RePlus(ReNot({","}))), ReStar(Ws), ReCh(","), ReStar(Ws),
            ReGrp(2, RePlus(ReNot({")"}))), ReStar(Ws), ReCh(")")>>)
TranslateBy(s, m) ==
    <<"t", "r", "a", "n", "s", "l", "a", "t", "e", "(">> \o Group(s, m, 1) \o <<",">> \o Group(s, m, 2) \o <<")">>
ScaleBy(s, m) ==
    IF Group(s, m, 1) = Group(s, m, 2)
    THEN <<"s", "c", "a", "l", "e", "(">> \o Group(s, m, 1) \o <<")">>
    ELSE <<"s", "c", "a", "l", "e", "(">> \o Group(s, m, 1) \o <<",">> \o Group(s, m, 2) \o <<")">>

\* /@media\s+([^{]+)\s*\{/g
MediaRe ==
    ReSeq(<<ReLit(<<"@", "m", "e", "d", "i", "a">>), RePlus(Ws), ReGrp(1, RePlus(ReNot({"{"}))),
            ReStar(Ws), ReCh("{")>>)
MediaBy(s, m) == <<"@", "m", "e", "d", "i", "a", " ">> \o Group(s, m, 1) \o <<"{">>

\* /linear-gradient\(\s*([^)]+)\s*\)/g, /radial-gradient\(...\)/g
GradientRe(name) ==
    ReSeq(<<ReLit(name), ReCh("("), ReStar(Ws),
            ReGrp(1, RePlus(ReNot({")"}))), ReStar(Ws), ReCh(")")>>)
\* /\s*,\s*/g
CommaWsRe == ReSeq(<<ReStar(Ws), ReCh(","), ReStar(Ws)>>)
ToComma(s, m) == <<",">>
GradientArgs(s, m) == ReplaceAll(CommaWsRe, Group(s, m, 1), ToComma)
LinearGradientBy(s, m) == <<"l", "i", "n", "e", "a", "r", "-", "g", "r", "a", "d", "i", "e", "n", "t", "(">> \o GradientArgs(s, m) \o <<")">>
RadialGradientBy(s, m) == <<"r", "a", "d", "i", "a", "l", "-", "g", "r", "a", "d", "i", "e", "n", "t", "(">> \o GradientArgs(s, m) \o <<")">>

\* server.js minifyCSS, the steps from calc() to the vendor prefixes
CssRewrites(src) ==
    Then(ReplaceAll(CalcRe, src, CalcBy), LAMBDA s1 :
    Then(ReplaceAll(QuotedIdentRe, s1, UnquoteBy), LAMBDA s2 :
    Then(ReplaceAll(RulePairRe, s2, MergeRulesBy), LAMBDA s3 :
    Then(ReplaceAll(EmptyRuleRe, s3, Erase), LAMBDA s4 :
    Then(ReplaceAll(BoxShorthandRe, s4, BoxShorthandBy), LAMBDA s5 :
    Then(ReplaceAll(BorderRadiusRe, s5, BorderRadiusBy), LAMBDA s6 :
    Then(ReplaceAll(PrefixedRe(<<"-", "w", "e", "b", "k", "i", "t", "-">>), s6, UnprefixBy), LAMBDA s7 :
    Then(ReplaceAll(PrefixedRe(<<"-", "m", "o", "z", "-">>), s7, UnprefixBy), LAMBDA s8 :
    ReplaceAll(MsPrefixedRe, s8, UnprefixBy)))))))))

\* server.js minifyCSS, the steps from translate() to the gradients
CssFunctions(src) ==
    Then(ReplaceAll(PairCallRe(<<"t", "r", "a", "n", "s", "l", "a", "t", "e">>), src, TranslateBy), LAMBDA s1 :
    Then(ReplaceAll(PairCallRe(<<"s", "c", "a", "l", "e">>), s1, ScaleBy), LAMBDA s2 :
    Then(ReplaceAll(MediaRe, s2, MediaBy), LAMBDA s3 :
    Then(ReplaceAll(GradientRe(<<"l", "i", "n", "e", "a", "r", "-", "g", "r", "a", "d", "i", "e", "n", "t">>), s3, LinearGradientBy), LAMBDA s4 :
    ReplaceAll(GradientRe(<<"r", "a", "d", "i", "a", "l", "-", "g", "r", "a", "d", "i", "e", "n", "t">>), s4, RadialGradientBy)))))

\* server.js minifyCSS, the steps />\s+/ /\+\s+/ /~\s+/
CssCombinators(src) ==
    Then(ReplaceAll(AfterRe(">"), src, FirstChar), LAMBDA s1 :
    Then(ReplaceAll(AfterRe("+"), s1, FirstChar), LAMBDA s2 :
    ReplaceAll(AfterRe("~"), s2, FirstChar)))

\* server.js minifyCSS
ServerMinifyCSS(src) ==
    Then(CssCommon1(src), LAMBDA s1 :
    Then(ReplaceAll(LeadingZeroRe, s1, DotGroup1), LAMBDA s2 :
    Then(CssColours(s2), LAMBDA s3 :
    Then(CssRewrites(s3), LAMBDA s4 :
    Then(CssFunctions(s4), LAMBDA s5 :
    Then(CssTighten(s5), LAMBDA s6 :
    Then(CssCombinators(s6), LAMBDA s7 :
    Trim(ReplaceAll(NewlineRe, s7, Erase)))))))))


(***************************************************************************)
(* String.prototype.replace with a replacement text: "$$", "$&", the text  *)
(* before and after the match and "$n" for a group the pattern has are     *)
(* expanded, every other character is copied.  m is <<start, end, caps>>   *)
(* and groups the number of capture groups of the pattern.                 *)
(***************************************************************************)
RECURSIVE Expand(_, _, _, _, _)
Expand(repl, k, s, m, groups) ==
    IF k > Len(repl) THEN <<>>
    ELSE IF repl[k] = "$" /\ k < Len(repl)
    THEN LET c == repl[k + 1]
         IN  CASE c = "$" -> <<"$">> \o Expand(repl, k + 2, s, m, groups)
               [] c = "&" -> Matched(s, m) \o Expand(repl, k + 2, s, m, groups)
               [] c = Backtick ->
                     Slice(s, 1, m[1]) \o Expand(repl, k + 2, s, m, groups)
               [] c = "'" ->
                     Slice(s, m[2], Len(s) + 1) \o Expand(repl, k + 2, s, m, groups)
               [] c \in {"1", "2", "3", "4"} /\ ParseInt(<<c>>, 0) <= groups ->
                     Group(s, m, ParseInt(<<c>>, 0))
                        \o Expand(repl, k + 2, s, m, groups)
               [] OTHER -> <<"$">> \o Expand(repl, k + 1, s, m, groups)
    ELSE <<repl[k]>> \o Expand(repl, k + 1, s, m, groups)

\* s.replace(re, repl) for a global re that has "groups" capture groups
ReplaceAllWith(re, s, repl, groups) ==
    LET By(t, m) == Expand(repl, 1, t, m, groups)
    IN  ReplaceAll(re, s, By)

\* s.replace(pattern, repl) for a pattern that is a text: its first
\* occurrence only, and the replacement text is expanded all the same
ReplaceText(s, pattern, repl) ==
    LET at == {p \in 1..(Len(s) + 1) : StartsWithAt(s, p, pattern)}
    IN  IF at = {} THEN s
        ELSE LET p == MinOf(at)
                 m == <<p, p + Len(pattern), NoCaps>>
             IN  Slice(s, 1, p) \o Expand(repl, 1, s, m, 0)
                    \o Slice(s, m[2], Len(s) + 1)

(***************************************************************************)
(* minifyHTML (server.js) and AssetProcessor.minifyHTML.                   *)
(***************************************************************************)
\* /<!--(?!\[if)[\s\S]*?-->/g
HtmlCommentRe ==
    ReSeq(<<ReLit(<<"<", "!", "-", "-">>), ReNotAhead(ReLit(<<"[", "i", "f">>)), ReLazyStar(ReAny), ReLit(<<"-", "-", ">">>)>>)
\* />\s+</g
BetweenTagsRe == ReSeq(<<ReCh(">"), RePlus(Ws), ReCh("<")>>)
\* />\s+([^<]+?)\s+</g
PaddedTextRe ==
    ReSeq(<<ReCh(">"), RePlus(Ws), ReGrp(1, ReLazyPlus(ReNot({"<"}))), RePlus(Ws), ReCh("<")>>)
\* /<style[^>]*>([\s\S]*?)<\/style>/gi
StyleBlockRe ==
    ReSeq(<<ReLitI(<<"<", "s", "t", "y", "l", "e">>), ReStar(ReNot({">"})), ReCh(">"),
            ReGrp(1, ReLazyStar(ReAny)), ReLitI(<<"<", "/", "s", "t", "y", "l", "e", ">">>)>>)
AttrNameChars == WordChars \cup {"-"}
Quotes == {"\"", "'"}
\* /\s+([\w-]+)=["']([^"'\s<>]+)["']/g
QuotedAttrRe ==
    ReSeq(<<RePlus(Ws), ReGrp(1, RePlus(ReSet(AttrNameChars))), ReCh("="), ReSet(Quotes),
            ReGrp(2, RePlus(ReNot(Quotes \cup SpaceChars \cup {"<", ">"}))), ReSet(Quotes)>>)
\* /^[a-zA-Z0-9._:/-]+$/
SafeValueRe ==
    ReSeq(<<ReBos,
            RePlus(ReSet(LowerLetters \cup UpperLetters \cup Digits \cup {".", "_", ":", "/", "-"})),
            ReEos>>)
\* /\s*=\s*/g
EqualsRe == ReSeq(<<ReStar(Ws), ReCh("="), ReStar(Ws)>>)
\* /\s+>/g
WsCloseRe == ReSeq(<<RePlus(Ws), ReCh(">")>>)
\* /\s{2,}/g
WsWideRe == ReAtLeast(Ws, 2)
\* /<([^>]+)\s+>/g
TagTailRe ==
    ReSeq(<<ReCh("<"), ReGrp(1, RePlus(ReNot({">"}))), RePlus(Ws), ReCh(">")>>)
\* /\s+[\w-]+=["']["']/g
EmptyAttrRe ==
    ReSeq(<<RePlus(Ws), RePlus(ReSet(AttrNameChars)), ReCh("="), ReSet(Quotes), ReSet(Quotes)>>)
\* /\s+type=["']text\/(javascript|css)["']/g
TypeAttrRe ==
    ReSeq(<<RePlus(Ws), ReLit(<<"t", "y", "p", "e", "=">>), ReSet(Quotes), ReLit(<<"t", "e", "x", "t", "/">>),
            ReGrp(1, ReAlt(<<ReLit(<<"j", "a", "v", "a", "s", "c", "r", "i", "p", "t">>), ReLit(<<"c", "s", "s">>)>>)), ReSet(Quotes)>>)

\* (m, attr, val) => safe ? " attr=val" : m
UnquoteAttrBy(s, m) ==
    IF Test(SafeValueRe, Group(s, m, 2))
    THEN <<" ">> \o Group(s, m, 1) \o <<"=">> \o Group(s, m, 2)
    ELSE Matched(s, m)

\* (m, css) => m.replace(css, minifyCSS(css))
ServerStyleBy(s, m) ==
    ReplaceText(Matched(s, m), Group(s, m, 1), ServerMinifyCSS(Group(s, m, 1)))
ProcessorStyleBy(s, m) ==
    ReplaceText(Matched(s, m), Group(s, m, 1), ProcessorMinifyCSS(Group(s, m, 1)))

\* the steps of the two HTML minifiers before the style blocks are reached
HtmlOpen(src) ==
    Then(ReplaceAll(HtmlCommentRe, src, Erase), LAMBDA s1 :
    Then(ReplaceAllWith(BetweenTagsRe, s1, <<">", "<">>, 0), LAMBDA s2 :
    ReplaceAllWith(PaddedTextRe, s2, <<">", "$", "1", "<">>, 1)))

\* the steps of the two HTML minifiers from the attributes to /\s{2,}/
HtmlAttrs(src) ==
    Then(ReplaceAll(QuotedAttrRe, src, UnquoteAttrBy), LAMBDA s1 :
    Then(ReplaceAllWith(EqualsRe, s1, <<"=">>, 0), LAMBDA s2 :
    Then(ReplaceAllWith(WsCloseRe, s2, <<">">>, 0), LAMBDA s3 :
    ReplaceAllWith(WsWideRe, s3, <<" ">>, 0))))

\* server.js minifyHTML
ServerMinifyHTML(src) ==
    Then(HtmlOpen(src), LAMBDA s1 :
    Then(ReplaceAll(StyleBlockRe, s1, ServerStyleBy), LAMBDA s2 :
    Then(HtmlAttrs(s2), LAMBDA s3 :
    Then(ReplaceAllWith(TagTailRe, s3, <<"<", "$", "1", ">">>, 1), LAMBDA s4 :
    Then(ReplaceAll(EmptyAttrRe, s4, Erase), LAMBDA s5 :
    Then(ReplaceAll(TypeAttrRe, s5, Erase), LAMBDA s6 :
    Trim(ReplaceAll(NewlineRe, s6, Erase))))))))

\* AssetProcessor.minifyHTML
ProcessorMinifyHTML(src) ==
    Then(HtmlOpen(src), LAMBDA s1 :
    Then(ReplaceAll(StyleBlockRe, s1, ProcessorStyleBy), LAMBDA s2 :
    Then(HtmlAttrs(s2), LAMBDA s3 :
    Then(ReplaceAll(TypeAttrRe, s3, Erase), LAMBDA s4 :
    Trim(ReplaceAll(NewlineRe, s4, Erase))))))

(***************************************************************************)
(* minifyJS (server.js): a scanner in two passes, then a chain of          *)
(* replacements over the whole text.                                       *)
(***************************************************************************)
\* src[i] of JavaScript, 1-based: past the end it is undefined
Undefined == "undefined"
CharAt(s, i) == IF i >= 1 /\ i <= Len(s) THEN s[i] ELSE Undefined

\* /\s/.test(ch)
IsSpace(ch) == ch \in SpaceChars
\* /[a-zA-Z0-9_$]/.test(ch): test() reads undefined as the text "undefined"
IsIdentChar(ch) ==
    ch \in LowerLetters \cup UpperLetters \cup Digits \cup {"_", "$"} \cup {Undefined}
\* /[a-zA-Z0-9_$"]/.test(ch)
IsIdentOrQuote(ch) == IsIdentChar(ch) \/ ch = "\""
\* /[=;:,{}()<>+\-*\/\?|&!]/
JsPunct == {"=", ";", ":", ",", "{", "}", "(", ")", "<", ">", "+", "-", "*",
            "/", "?", "|", "&", "!"}

\* the scanner's variables at the start of a pass
ScanStart ==
    [out |-> <<>>, inStr |-> FALSE, strQuote |-> "", inTemplate |-> FALSE,
     escape |-> FALSE]

\* a faulty scanner: every backslash escapes the character after it, an
\* escaped backslash too
EscapeAfterEveryBackslash(st, ch) ==
    IF st.inStr
    THEN [st EXCEPT !.out      = @ \o <<ch>>,
                    !.inStr    = ~(~st.escape /\ ch = st.strQuote),
                    !.strQuote = IF ~st.escape /\ ch = st.strQuote THEN "" ELSE @,
                    !.escape   = ch = "\\"]
    ELSE [st EXCEPT !.out        = @ \o <<ch>>,
                    !.inTemplate = ~(~st.escape /\ ch = Backtick),
                    !.escape     = ch = "\\"]

\* the branches "if (inStr)" and "if (inTemplate)": ch is copied
ScanInside(st, ch) ==
    IF st.inStr
    THEN [st EXCEPT !.out      = @ \o <<ch>>,
                    !.inStr    = ~(~st.escape /\ ch = st.strQuote),
                    !.strQuote = IF ~st.escape /\ ch = st.strQuote THEN "" ELSE @,
                    !.escape   = ~st.escape /\ ch = "\\"]
    ELSE [st EXCEPT !.out        = @ \o <<ch>>,
                    !.inTemplate = ~(~st.escape /\ ch = Backtick),
                    !.escape     = ~st.escape /\ ch = "\\"]

\* the branches that open a string or a template literal
ScanOpen(st, ch) ==
    IF ch = Backtick
    THEN [st EXCEPT !.out = @ \o <<ch>>, !.inTemplate = TRUE]
    ELSE [st EXCEPT !.out = @ \o <<ch>>, !.inStr = TRUE, !.strQuote = ch]

\* a faulty skip: the index is left where the comment opened
StayOnComment(src, i) == i - 2

\* while (i < n && !(src[i] === "*" && src[i + 1] === "/")) i++
SkipBlock(src, i) ==
    LET ends == {k \in i..Len(src) : src[k] = "*" /\ CharAt(src, k + 1) = "/"}
    IN  IF ends = {} \/ i > Len(src) THEN (IF i > Len(src) THEN i ELSE Len(src) + 1)
        ELSE MinOf(ends)

\* while (i < n && src[i] !== "\n") i++
SkipLine(src, i) ==
    LET ends == {k \in i..Len(src) : src[k] = "\n"}
    IN  IF ends = {} THEN (IF i > Len(src) THEN i ELSE Len(src) + 1)
        ELSE MinOf(ends)

RECURSIVE StripComments(_, _, _)
\* the first loop of minifyJS from index i on: comments outside literals go
StripComments(src, i, st) ==
    IF i > Len(src) THEN st.out
    ELSE LET ch   == src[i]
             next == CharAt(src, i + 1)
         IN  IF st.inStr \/ st.inTemplate
             THEN StripComments(src, i + 1, ScanInside(st, ch))
             ELSE IF ch \in {"\"", "'", Backtick}
             THEN StripComments(src, i + 1, ScanOpen(st, ch))
             ELSE IF ch = "/" /\ next = "*"
             THEN StripComments(src, SkipBlock(src, i + 2) + 2, st)
             ELSE IF ch = "/" /\ next = "/"
             THEN StripComments(src, SkipLine(src, i + 2), st)
             ELSE StripComments(src, i + 1, [st EXCEPT !.out = @ \o <<ch>>])

\* while (k < out.length && /\s/.test(out[k])) k++, from k on
SkipSpaces(out, k) ==
    LET ends == {p \in k..Len(out) : ~IsSpace(out[p])}
    IN  IF ends = {} THEN (IF k > Len(out) THEN k ELSE Len(out) + 1)
        ELSE MinOf(ends)

\* the last character of finalOut, undefined when there is none
LastChar(text) == CharAt(text, Len(text))

RECURSIVE CollapseSpaces(_, _, _)
\* the second loop of minifyJS from index j on; st.out is finalOut
CollapseSpaces(out, j, st) ==
    IF j > Len(out) THEN st.out
    ELSE LET ch   == out[j]
             prev == LastChar(st.out)
         IN  IF st.inStr \/ st.inTemplate
             THEN CollapseSpaces(out, j + 1, ScanInside(st, ch))
             ELSE IF ch \in {"\"", "'", Backtick}
             THEN CollapseSpaces(out, j + 1, ScanOpen(st, ch))
             ELSE IF IsSpace(ch)
             THEN LET k    == SkipSpaces(out, j + 1)
                      nxt  == CharAt(out, k)
                      keep == \/ IsIdentChar(prev) /\ IsIdentChar(nxt)
                              \/ prev = "return" /\ IsIdentOrQuote(nxt)
                  IN  CollapseSpaces(out, k,
                          IF keep THEN [st EXCEPT !.out = @ \o <<" ">>] ELSE st)
             ELSE LET kept == IF ch \in JsPunct /\ EndsWith(st.out, <<" ">>)
                              THEN SubSeq(st.out, 1, Len(st.out) - 1)
                              ELSE st.out
                  IN  CollapseSpaces(out, j + 1, [st EXCEPT !.out = kept \o <<ch>>])

IdentStart == LowerLetters \cup UpperLetters \cup {"_", "$"}
\* /\["([a-zA-Z_$][a-zA-Z0-9_$]*)"\]/g
BracketKeyRe ==
    ReSeq(<<ReLit(<<"[", "\"">>),
            ReGrp(1, ReSeq(<<ReSet(IdentStart), ReStar(ReSet(IdentStart \cup Digits))>>)),
            ReLit(<<"\"", "]">>)>>)

\* the chain of replacements that ends server.js minifyJS
JsTail(text) ==
    Then(ReplaceAll(NewlineRe, text, Erase), LAMBDA s1 :
    Then(ReplaceAll(SemiBraceRe, s1, ToBrace), LAMBDA s2 :
    Then(ReplaceAll(ReLit(<<"=", "=", "=", "t", "r", "u", "e">>), s2, Erase), LAMBDA s3 :
    Then(ReplaceAll(ReLit(<<"!", "=", "=", "f", "a", "l", "s", "e">>), s3, Erase), LAMBDA s4 :
    Then(ReplaceAll(ReLit(<<"=", "=", "t", "r", "u", "e">>), s4, Erase), LAMBDA s5 :
    Then(ReplaceAll(ReLit(<<"!", "=", "f", "a", "l", "s", "e">>), s5, Erase), LAMBDA s6 :
    Trim(ReplaceAll(BracketKeyRe, s6, DotGroup1))))))))

\* server.js minifyJS
ServerMinifyJS(src) ==
    Then(StripComments(src, 1, ScanStart), LAMBDA out :
    JsTail(CollapseSpaces(out, 1, ScanStart)))

(***************************************************************************)
(* AssetProcessor.minifyJS: literals are swapped for placeholders, the     *)
(* rest is rewritten by regular expressions, the literals are put back.    *)
(***************************************************************************)
\* the regular expression of the first replace: a quote (group 1), then lazily
\* escaped characters or characters that neither are the quote nor a
\* backslash (group 2), then the quote again
JsStringRe ==
    ReSeq(<<ReGrp(1, ReSet({"\"", "'", Backtick})),
            ReGrp(2, ReLazyStar(ReAlt(<<ReSeq(<<ReCh("\\"), ReDot>>),
                                        ReSeq(<<ReNotAhead(ReRef(1)), ReNot({"\\"})>>)>>))),
            ReRef(1)>>)
\* /\/\/.*$/gm
LineCommentRe == ReSeq(<<ReLit(<<"/", "/">>), ReStar(ReDot), ReEol>>)
\* /\s*([=;:,{}()<>+\-*\/\?|&!])\s*/g
JsPunctRe == ReSeq(<<ReStar(Ws), ReGrp(1, ReSet(JsPunct)), ReStar(Ws)>>)

\* the placeholder of the literal numbered k
Placeholder(k) == <<"_", "_", "S", "T", "R", "I", "N", "G", "_">> \o ToRadix(k, 10) \o <<"_", "_">>

\* the first replace of AssetProcessor.minifyJS: the literals, in order
PreservedStrings(src) == MatchAll(JsStringRe, src)

\* the text with the literal numbered k - 1 swapped for its placeholder
HideStrings(src) ==
    LET ms     == ExecAll(JsStringRe, src, 1)
        n      == Len(ms)
        gap(k) == Slice(src, IF k = 1 THEN 1 ELSE ms[k - 1][2], ms[k][1])
        rest   == IF n = 0 THEN src ELSE Slice(src, ms[n][2], Len(src) + 1)
    IN  Flatten([k \in 1..n |-> gap(k) \o Placeholder(k - 1)]) \o rest

RECURSIVE RestoreStrings(_, _, _)
\* preserveStrings.forEach(...) from the literal numbered k - 1 on
RestoreStrings(out, originals, k) ==
    IF k > Len(originals) THEN out
    ELSE RestoreStrings(ReplaceText(out, Placeholder(k - 1), originals[k]),
                        originals, k + 1)

\* AssetProcessor.minifyJS
ProcessorMinifyJS(src) ==
    Then(HideStrings(src), LAMBDA s1 :
    Then(ReplaceAll(BlockCommentRe, s1, Erase), LAMBDA s2 :
    Then(ReplaceAll(LineCommentRe, s2, Erase), LAMBDA s3 :
    Then(ReplaceAll(WsRunRe, s3, ToSpace), LAMBDA s4 :
    Then(ReplaceAll(JsPunctRe, s4, KeepGroup1), LAMBDA s5 :
    Then(Trim(ReplaceAll(SemiBraceRe, s5, ToBrace)), LAMBDA s6 :
    RestoreStrings(s6, PreservedStrings(src), 1)))))))

(***************************************************************************)
(* Files, content types, compression and the entries of the serving table. *)
(* Paths are texts; the table files maps "/" + relPath to an entry and     *)
(* "__csp__" to the policy.                                                *)
(***************************************************************************)
\* the manifest, in the order build() goes through it
Manifest ==
    <<<<"i", "n", "d", "e", "x", ".", "h", "t", "m", "l">>, <<"s", "t", "y", "l", "e", ".", "c", "s", "s">>, <<"s", "c", "r", "i", "p", "t", ".", "j", "s">>, <<"f", "a", "v", "i", "c", "o", "n", ".", "w", "e", "b", "p">>, <<"p", "r", "o", "f", "i", "l", "e", ".", "w", "e", "b", "p">>,
      <<"r", "o", "b", "o", "t", "s", ".", "t", "x", "t">>, <<"s", "i", "t", "e", "m", "a", "p", ".", "x", "m", "l">>>>
ManifestFiles == {Manifest[k] : k \in 1..Len(Manifest)}
CspKey == <<"_", "_", "c", "s", "p", "_", "_">>

\* path.extname(fp).toLowerCase(): from the last dot of the last segment on,
\* empty when there is none or when the segment starts with it
extname(fp) ==
    LET slashes == {k \in 1..Len(fp) : fp[k] = "/"}
        base    == IF slashes = {} THEN 1 ELSE MaxOf(slashes) + 1
        dots    == {k \in (base + 1)..Len(fp) : fp[k] = "."}
    IN  IF dots = {} THEN <<>>
        ELSE LET ext == SubSeq(fp, MaxOf(dots), Len(fp))
             IN  [k \in 1..Len(ext) |-> LowerOf(ext[k])]

\* server.js contentTypeFor
contentTypeFor(fp) ==
    LET ext == extname(fp)
    IN  CASE ext = <<".", "h", "t", "m", "l">> -> "text/html; charset=utf-8"
          [] ext = <<".", "c", "s", "s">>  -> "text/css; charset=utf-8"
          [] ext = <<".", "j", "s">>   -> "application/javascript; charset=utf-8"
          [] ext = <<".", "w", "e", "b", "p">> -> "image/webp"
          [] ext = <<".", "x", "m", "l">>  -> "application/xml; charset=utf-8"
          [] ext = <<".", "t", "x", "t">>  -> "text/plain; charset=utf-8"
          [] OTHER         -> "application/octet-stream"

\* a faulty cacheControlFor: the extension is compared as it is written
CaseSensitiveCache(fp) ==
    IF EndsWith(fp, <<".", "h", "t", "m", "l">>) THEN "no-cache"
    ELSE IF EndsWith(fp, <<".", "c", "s", "s">>) \/ EndsWith(fp, <<".", "j", "s">>) \/ EndsWith(fp, <<".", "w", "e", "b", "p">>)
    THEN "public, max-age=31536000, immutable"
    ELSE "public, max-age=3600"
\* server.js cacheControlFor
cacheControlFor(fp) ==
    LET ext == extname(fp)
    IN  IF ext = <<".", "h", "t", "m", "l">> THEN "no-cache"
        ELSE IF ext = <<".", "c", "s", "s">> \/ ext = <<".", "j", "s">>
        THEN "public, max-age=31536000, immutable"
        ELSE IF ext = <<".", "w", "e", "b", "p">> THEN "public, max-age=31536000, immutable"
        ELSE IF ext = <<".", "x", "m", "l">> \/ ext = <<".", "t", "x", "t">> THEN "public, max-age=3600"
        ELSE "public, max-age=3600"

\* AssetProcessor.getContentType
getContentType(filePath) ==
    LET ext   == extname(filePath)
        types == {<<<<".", "h", "t", "m", "l">>, "text/html; charset=utf-8">>,
                  <<<<".", "c", "s", "s">>, "text/css; charset=utf-8">>,
                  <<<<".", "j", "s">>, "application/javascript; charset=utf-8">>,
                  <<<<".", "w", "e", "b", "p">>, "image/webp">>,
                  <<<<".", "x", "m", "l">>, "application/xml; charset=utf-8">>,
                  <<<<".", "t", "x", "t">>, "text/plain; charset=utf-8">>}
    IN  IF \E t \in types : t[1] = ext
        THEN (CHOOSE t \in types : t[1] = ext)[2]
        ELSE "application/octet-stream"

\* AssetProcessor.getCacheControl
getCacheControl(filePath) ==
    LET ext == extname(filePath)
    IN  IF ext = <<".", "h", "t", "m", "l">> THEN "no-cache"
        ELSE IF ext \in {<<".", "c", "s", "s">>, <<".", "j", "s">>, <<".", "w", "e", "b", "p">>}
        THEN "public, max-age=31536000, immutable"
        ELSE "public, max-age=3600"

\* Buffer.prototype.toString("utf8") of a buffer of such characters
CharOf(code) ==
    CASE code = 9 -> "\t" [] code = 10 -> "\n" [] code = 12 -> "\f"
      [] code = 13 -> "\r" [] OTHER -> Printable[code - 31]
BufferToString(buf) == [k \in 1..Len(buf) |-> CharOf(buf[k])]

\* zlib is outside the program: what it returns is kept apart from what it
\* was given by a stream header, and differs between the two encodings
BrotliHeader == <<139>>
GzipHeader   == <<31, 139>>
brotliCompress(buf) == BrotliHeader \o buf
gzip(buf)           == GzipHeader \o buf

\* a field that was never assigned
NoBuffer == <<-1>>
NoTag    == <<>>

\* a faulty preCompress: a variant that failed is filled with the raw bytes
KeepsFailedVariant(buf, brOk, gzOk) ==
    [raw |-> buf,
     br  |-> IF brOk THEN brotliCompress(buf) ELSE buf,
     gz  |-> IF gzOk THEN gzip(buf) ELSE buf]

\* preCompress / AssetProcessor.compress: the variants zlib delivers; brOk
\* and gzOk tell whether the callbacks come back without an error
preCompress(buf, brOk, gzOk) ==
    [raw |-> buf,
     br  |-> IF brOk THEN brotliCompress(buf) ELSE NoBuffer,
     gz  |-> IF gzOk THEN gzip(buf) ELSE NoBuffer]

compress(buf, brOk, gzOk) ==
    [raw |-> buf,
     br  |-> IF brOk THEN brotliCompress(buf) ELSE NoBuffer,
     gz  |-> IF gzOk THEN gzip(buf) ELSE NoBuffer]

\* a faulty loadAndMinify: the Brotli variant is given the tag of the body
EntryWithBodyTag(relPath, body, compressed) ==
    [path   |-> relPath,
     type   |-> contentTypeFor(relPath),
     cache  |-> cacheControlFor(relPath),
     body   |-> body,
     etag   |-> etag(body),
     br     |-> compressed.br,
     brEtag |-> IF compressed.br # NoBuffer THEN etag(body) ELSE NoTag,
     gz     |-> compressed.gz,
     gzEtag |-> IF compressed.gz # NoBuffer THEN etag(compressed.gz) ELSE NoTag]

\* the entry loadAndMinify puts into the table (server.js)
ServerEntry(relPath, body, compressed) ==
    [path   |-> relPath,
     type   |-> contentTypeFor(relPath),
     cache  |-> cacheControlFor(relPath),
     body   |-> body,
     etag   |-> etag(body),
     br     |-> compressed.br,
     brEtag |-> IF compressed.br # NoBuffer THEN etag(compressed.br) ELSE NoTag,
     gz     |-> compressed.gz,
     gzEtag |-> IF compressed.gz # NoBuffer THEN etag(compressed.gz) ELSE NoTag]

\* a faulty entry: the compressed variants are stored without their tags
UntaggedVariants(relPath, processedContent, compressed) ==
    [path   |-> <<"/">> \o relPath,
     type   |-> getContentType(relPath),
     cache  |-> getCacheControl(relPath),
     body   |-> processedContent,
     etag   |-> etag(processedContent),
     br     |-> compressed.br,
     brEtag |-> NoTag,
     gz     |-> compressed.gz,
     gzEtag |-> NoTag]

\* the entry processFile returns (AssetProcessor)
ProcessorEntry(relPath, processedContent, compressed) ==
    [path   |-> <<"/">> \o relPath,
     type   |-> getContentType(relPath),
     cache  |-> getCacheControl(relPath),
     body   |-> processedContent,
     etag   |-> etag(processedContent),
     br     |-> compressed.br,
     brEtag |-> IF compressed.br # NoBuffer THEN etag(compressed.br) ELSE NoTag,
     gz     |-> compressed.gz,
     gzEtag |-> IF compressed.gz # NoBuffer THEN etag(compressed.gz) ELSE NoTag]

\* a faulty handler: the entry of a fallback read is compressed on the fly
CompressedTmpEntry(fallback, raw) ==
    [path   |-> <<>>,
     type   |-> contentTypeFor(fallback),
     cache  |-> cacheControlFor(fallback),
     body   |-> raw,
     etag   |-> etag(raw),
     br     |-> brotliCompress(raw), brEtag |-> etag(brotliCompress(raw)),
     gz     |-> gzip(raw), gzEtag |-> etag(gzip(raw))]
\* tmpEntry / tempEntry of the fallback read: type, cache, body and etag only
ServerTmpEntry(fallback, raw) ==
    [path   |-> <<>>,
     type   |-> contentTypeFor(fallback),
     cache  |-> cacheControlFor(fallback),
     body   |-> raw,
     etag   |-> etag(raw),
     br     |-> NoBuffer, brEtag |-> NoTag, gz |-> NoBuffer, gzEtag |-> NoTag]

ProcessorTempEntry(fallbackPath, content) ==
    [path   |-> <<>>,
     type   |-> getContentType(fallbackPath),
     cache  |-> getCacheControl(fallbackPath),
     body   |-> content,
     etag   |-> etag(content),
     br     |-> NoBuffer, brEtag |-> NoTag, gz |-> NoBuffer, gzEtag |-> NoTag]

\* the minifier build() hands to loadAndMinify / processFile for relPath
\* (none for the last four files of the manifest)
HasMinifier(relPath) == relPath \in {<<"i", "n", "d", "e", "x", ".", "h", "t", "m", "l">>, <<"s", "t", "y", "l", "e", ".", "c", "s", "s">>, <<"s", "c", "r", "i", "p", "t", ".", "j", "s">>}

ServerMinify(relPath, text) ==
    CASE relPath = <<"i", "n", "d", "e", "x", ".", "h", "t", "m", "l">> -> ServerMinifyHTML(text)
      [] relPath = <<"s", "t", "y", "l", "e", ".", "c", "s", "s">>  -> ServerMinifyCSS(text)
      [] relPath = <<"s", "c", "r", "i", "p", "t", ".", "j", "s">>  -> ServerMinifyJS(text)

ProcessorMinify(relPath, text) ==
    CASE relPath = <<"i", "n", "d", "e", "x", ".", "h", "t", "m", "l">> -> ProcessorMinifyHTML(text)
      [] relPath = <<"s", "t", "y", "l", "e", ".", "c", "s", "s">>  -> ProcessorMinifyCSS(text)
      [] relPath = <<"s", "c", "r", "i", "p", "t", ".", "j", "s">>  -> ProcessorMinifyJS(text)

\* /<link[^>]*href=["']style\.css["'][^>]*>/gi
StyleLinkRe ==
    ReSeq(<<ReLitI(<<"<", "l", "i", "n", "k">>), ReStar(ReNot({">"})), ReLitI(<<"h", "r", "e", "f", "=">>), ReSet(Quotes),
            ReLitI(<<"s", "t", "y", "l", "e", ".", "c", "s", "s">>), ReSet(Quotes), ReStar(ReNot({">"})), ReCh(">")>>)
\* /<script[^>]*src=["']script\.js["'][^>]*><\/script>/gi
ScriptRefRe ==
    ReSeq(<<ReLitI(<<"<", "s", "c", "r", "i", "p", "t">>), ReStar(ReNot({">"})), ReLitI(<<"s", "r", "c", "=">>), ReSet(Quotes),
            ReLitI(<<"s", "c", "r", "i", "p", "t", ".", "j", "s">>), ReSet(Quotes), ReStar(ReNot({">"})), ReCh(">"),
            ReLitI(<<"<", "/", "s", "c", "r", "i", "p", "t", ">">>)>>)

\* processFile for index.html up to the minifier: the stylesheet and the
\* script are inlined when their files exist (hasCss, hasJs)
InlineAssets(htmlContent, hasCss, cssContent, hasJs, jsContent) ==
    Then(IF hasCss
              THEN ReplaceAllWith(StyleLinkRe, htmlContent,
                       <<"<", "s", "t", "y", "l", "e", ">">> \o ProcessorMinifyCSS(cssContent) \o <<"<", "/", "s", "t", "y", "l", "e", ">">>, 0)
              ELSE htmlContent, LAMBDA s1 :
    IF hasJs
              THEN ReplaceAllWith(ScriptRefRe, s1,
                       <<"<", "s", "c", "r", "i", "p", "t", ">">> \o ProcessorMinifyJS(jsContent) \o <<"<", "/", "s", "c", "r", "i", "p", "t", ">">>, 0)
              ELSE s1)

(***************************************************************************)
(* The state of one process: which of the two programs runs (server.js or  *)
(* the AssetProcessor), the directory it serves, what fails during its     *)
(* build, and its own variables.                                           *)
(***************************************************************************)
VARIABLES
    impl,       \* "server" (server.js) or "processor" (AssetProcessor)
    disk,       \* ROOT: relative path |-> [kind, content]; absent paths are not in it
    faults,     \* the operations that fail during the build: <<kind, relPath>>
    files,      \* the serving table (Map): key |-> entry, "__csp__" |-> policy
    pc,         \* "start", "building", "listening", "exited"
    step,       \* server.js build(): index in Manifest of the next file
    pending,    \* AssetProcessor.build(): the tasks that have not settled
    resp,       \* the request being answered and its response, <<>> when none
    js,         \* a script and what the two minifyJS make of it (below)
    flight,     \* the compressions of the build seen one by one (below):
                \* relPath |-> [br, gz], each "waiting", "running", "done", "failed"
    page,       \* the documents handed to the extraction of inline content,
                \* element by element (below)
    menu,       \* the menu of the page as the page script leaves it (below)
    scan,       \* server.js minifyJS seen one loop iteration at a time (below)
    inbox       \* the requests that have come in and wait for their handler
                \* to be called (below)

vars == <<impl, disk, faults, files, cspHashes, pc, step, pending, resp, js, flight,
          page, menu, scan, inbox>>

\* absent files and failing operations, together, in one run
MaxFaults == 1

\* index.html as it may lie in ROOT: without inline content, with an inline
\* style and script, and with references to style.css and script.js
DocPlain  == <<"<", "p", ">", " ", "h", "i", " ", "<", "/", "p", ">">>
DocInline == <<"<", "s", "t", "y", "l", "e", ">", " ", "a", " ", "{", " ", "}", " ", "<", "/", "s", "t", "y", "l", "e", ">", "<", "s", "c", "r", "i", "p", "t", ">", " ", "x", " ", "=", " ", "1", " ", "<", "/", "s", "c", "r", "i", "p", "t", ">">>
DocLinked == <<"<", "l", "i", "n", "k", " ", "h", "r", "e", "f", "=", "\"", "s", "t", "y", "l", "e", ".", "c", "s", "s", "\"", ">", "<", "s", "c", "r", "i", "p", "t", " ", "s", "r", "c", "=", "\"", "s", "c", "r", "i", "p", "t", ".", "j", "s", "\"", ">", "<", "/", "s", "c", "r", "i", "p", "t", ">">>
IndexDocs == {DocPlain, DocInline, DocLinked}

\* the other files of ROOT; notes.txt, A.CSS and LICENSE are files outside
\* the manifest and assets is a directory
FileContent(relPath) ==
    CASE relPath = <<"s", "t", "y", "l", "e", ".", "c", "s", "s">>    -> <<"a", " ", "{", " ", "b", " ", ":", " ", "c", " ", "}">>
      [] relPath = <<"s", "c", "r", "i", "p", "t", ".", "j", "s">>    -> <<"x", " ", "=", " ", "1", " ", ";", " ", "/", "/", " ", "y">>
      [] relPath = <<"f", "a", "v", "i", "c", "o", "n", ".", "w", "e", "b", "p">> -> <<"R", "I", "F", "F", "1">>
      [] relPath = <<"p", "r", "o", "f", "i", "l", "e", ".", "w", "e", "b", "p">> -> <<"R", "I", "F", "F", "2">>
      [] relPath = <<"r", "o", "b", "o", "t", "s", ".", "t", "x", "t">>   -> <<"U", "s", "e", "r", "-", "a", "g", "e", "n", "t", ":", " ", "*">>
      [] relPath = <<"s", "i", "t", "e", "m", "a", "p", ".", "x", "m", "l">>  -> <<"<", "u", "r", "l", "s", "e", "t", "/", ">">>
      [] relPath = <<"n", "o", "t", "e", "s", ".", "t", "x", "t">>    -> <<"t", "o", "d", "o">>
      [] relPath = <<"A", ".", "C", "S", "S">> -> <<"b", "{", "}">>
      [] relPath = <<"L", "I", "C", "E", "N", "S", "E">> -> <<"M", "I", "T">>
      [] OTHER                    -> <<>>

DiskOf(doc, absent) ==
    [p \in (ManifestFiles \ absent) \cup {<<"n", "o", "t", "e", "s", ".", "t", "x", "t">>, <<"A", ".", "C", "S", "S">>, <<"L", "I", "C", "E", "N", "S", "E">>, <<"a", "s", "s", "e", "t", "s">>} |->
        IF p = <<"a", "s", "s", "e", "t", "s">> THEN [kind |-> "dir", content |-> <<>>]
        ELSE [kind    |-> "file",
              content |-> IF p = <<"i", "n", "d", "e", "x", ".", "h", "t", "m", "l">> THEN doc ELSE FileContent(p)]]

\* what may fail while the build runs: reading a file, and either
\* compression of a file's body or both of them
FaultKinds == {"read", "br", "gz", "zlib"}
\* the files whose compression may fail: one that is minified and one that
\* is not
CompressFaultFiles == {<<"i", "n", "d", "e", "x", ".", "h", "t", "m", "l">>, <<"r", "o", "b", "o", "t", "s", ".", "t", "x", "t">>}
AllFaults  ==
    {<<"read", f>> : f \in ManifestFiles}
        \cup {<<k, f>> : k \in {"br", "gz", "zlib"}, f \in CompressFaultFiles}

\* fs.existsSync(path.join(ROOT, relPath))
existsSync(relPath) == relPath \in DOMAIN disk
\* a faulty check: whatever exists at the path counts as a file
AnyKind(relPath) == TRUE
\* fs.statSync(...).isFile()
isFile(relPath) == disk[relPath].kind = "file"
\* fs.promises.readFile resolves
Readable(relPath) == existsSync(relPath) /\ <<"read", relPath>> \notin faults
BrOk(relPath) == <<"br", relPath>> \notin faults /\ <<"zlib", relPath>> \notin faults
GzOk(relPath) == <<"gz", relPath>> \notin faults /\ <<"zlib", relPath>> \notin faults

RECURSIVE SubsetsUpTo(_, _)
\* the subsets of S of at most n elements
SubsetsUpTo(S, n) ==
    IF n = 0 THEN {{}}
    ELSE LET smaller == SubsetsUpTo(S, n - 1)
         IN  smaller \cup {s \cup {x} : s \in smaller, x \in S}

\* Map.prototype.set
MapSet(map, key, value) ==
    [k \in DOMAIN map \cup {key} |-> IF k = key THEN value ELSE map[k]]
EmptyMap == [k \in {} |-> k]

\* no document has been handed to the extraction on its own
NoPage == [earlier |-> <<>>, latest |-> <<>>]
\* the page script is not running
NoMenu == [open |-> FALSE, expanded |-> "none", btnInNav |-> FALSE, events |-> <<>>]
\* minifyJS is not being followed
NoScan == [src |-> <<>>, pass |-> "none"]
\* no script is being minified on its own
NoJs == [src |-> <<>>, minified |-> FALSE, server |-> <<>>, processor |-> <<>>]

Init ==
    /\ impl \in {"server", "processor"}
    /\ \E doc \in IndexDocs, absent \in SubsetsUpTo(ManifestFiles, MaxFaults) :
          /\ disk = DiskOf(doc, absent)
          /\ faults \in SubsetsUpTo(AllFaults, MaxFaults - Cardinality(absent))
    /\ files = EmptyMap
    /\ cspHashes = [scripts |-> <<>>, styles |-> <<>>]
    /\ pc = "start"
    /\ step = 0
    /\ pending = {}
    /\ resp = <<>>
    /\ js = NoJs
    /\ flight = EmptyMap
    /\ page = NoPage
    /\ menu = NoMenu
    /\ scan = NoScan
    /\ inbox = {}

(***************************************************************************)
(* server.js: start() awaits build(), which loads the manifest file by     *)
(* file; a rejection anywhere ends in start().catch and process.exit(1).   *)
(***************************************************************************)
\* loadAndMinify(relPath, minify) once the file is read: the new values of
\* cspHashes and files
\* files.set("/" + relPath, {...}) with the body loadAndMinify has made
SetEntry(relPath, body) ==
    MapSet(files, <<"/">> \o relPath,
           ServerEntry(relPath, body,
                       preCompress(body, BrOk(relPath), GzOk(relPath))))

loadAndMinify(relPath) ==
    LET originalContent == disk[relPath].content
    IN  [cspHashes |-> IF relPath = <<"i", "n", "d", "e", "x", ".", "h", "t", "m", "l">>
                       THEN extractInlineContent(originalContent)
                       ELSE cspHashes,
         files     |-> SetEntry(relPath,
                           IF HasMinifier(relPath)
                           THEN BufferFrom(ServerMinify(relPath, originalContent))
                           ELSE BufferFrom(originalContent))]

\* the table and the hashes after a call of loadAndMinify
Loaded(loaded) ==
    /\ files' = loaded.files
    /\ cspHashes' = loaded.cspHashes

ServerStart ==
    /\ impl = "server" /\ pc = "start"
    /\ pc' = "building"
    /\ step' = 1
    /\ UNCHANGED <<inbox, scan, page, menu, flight, js, impl, disk, faults, files, cspHashes, pending, resp>>

\* one iteration of build(): the first three files are loaded whether they
\* exist or not, the others only when existsSync finds them
ServerLoad ==
    /\ impl = "server" /\ pc = "building" /\ step <= Len(Manifest)
    /\ LET f == Manifest[step]
       IN  IF step > 3 /\ ~existsSync(f)
           THEN /\ step' = step + 1
                /\ UNCHANGED <<files, cspHashes, pc>>
           ELSE IF ~Readable(f)
           THEN /\ pc' = "exited"
                /\ UNCHANGED <<files, cspHashes, step>>
           ELSE /\ Loaded(loadAndMinify(f))
                /\ step' = step + 1
                /\ UNCHANGED pc
    /\ UNCHANGED <<inbox, scan, page, menu, flight, js, impl, disk, faults, pending, resp>>

\* a faulty start(): the server listens while build() is still loading
EagerListen ==
    /\ impl = "server" /\ pc = "building"
    /\ files' = MapSet(files, CspKey, ServerGenerateCSP(cspHashes))
    /\ pc' = "listening"
    /\ UNCHANGED <<inbox, scan, page, menu, flight, js, impl, disk, faults, cspHashes, step, pending, resp>>
\* the end of build() and the rest of start(): the policy is published and
\* the server listens
ServerListen ==
    /\ impl = "server" /\ pc = "building" /\ step > Len(Manifest)
    /\ files' = MapSet(files, CspKey, ServerGenerateCSP(cspHashes))
    /\ pc' = "listening"
    /\ UNCHANGED <<inbox, scan, page, menu, flight, js, impl, disk, faults, cspHashes, step, pending, resp>>

(***************************************************************************)
(* AssetProcessor: build() starts one task per manifest file and awaits    *)
(* Promise.allSettled; the tasks settle in any order.                      *)
(***************************************************************************)
\* processFile(relPath, minifier) resolves: every file it reads can be read
ProcessFileOk(relPath) ==
    /\ Readable(relPath)
    /\ relPath = <<"i", "n", "d", "e", "x", ".", "h", "t", "m", "l">> =>
          /\ existsSync(<<"s", "t", "y", "l", "e", ".", "c", "s", "s">>) => Readable(<<"s", "t", "y", "l", "e", ".", "c", "s", "s">>)
          /\ existsSync(<<"s", "c", "r", "i", "p", "t", ".", "j", "s">>) => Readable(<<"s", "c", "r", "i", "p", "t", ".", "j", "s">>)

\* the text processFile makes of index.html
ProcessedHtml ==
    LET htmlContent == disk[<<"i", "n", "d", "e", "x", ".", "h", "t", "m", "l">>].content
        hasCss      == existsSync(<<"s", "t", "y", "l", "e", ".", "c", "s", "s">>)
        hasJs       == existsSync(<<"s", "c", "r", "i", "p", "t", ".", "j", "s">>)
        inlined     == InlineAssets(htmlContent,
                           hasCss, IF hasCss THEN disk[<<"s", "t", "y", "l", "e", ".", "c", "s", "s">>].content ELSE <<>>,
                           hasJs, IF hasJs THEN disk[<<"s", "c", "r", "i", "p", "t", ".", "j", "s">>].content ELSE <<>>)
    IN  Then(inlined, ProcessorMinifyHTML)

\* processFile(relPath, minifier) when it resolves: the new value of
\* cspHashes and the entry it returns
\* the end of processFile, from the processed text on
Processed(relPath, text) ==
    [cspHashes |-> IF relPath = <<"i", "n", "d", "e", "x", ".", "h", "t", "m", "l">> THEN extractCSPHashes(text)
                   ELSE cspHashes,
     entry     |-> ProcessorEntry(relPath, BufferFrom(text),
                       compress(BufferFrom(text), BrOk(relPath), GzOk(relPath)))]

processFile(relPath) ==
    Processed(relPath,
              IF relPath = <<"i", "n", "d", "e", "x", ".", "h", "t", "m", "l">> THEN ProcessedHtml
              ELSE IF HasMinifier(relPath)
              THEN ProcessorMinify(relPath, disk[relPath].content)
              ELSE disk[relPath].content)

\* this.files.set(result.value.path, result.value) in build(), and the
\* hashes processFile has left
Settled(done) ==
    /\ files' = MapSet(files, done.entry.path, done.entry)
    /\ cspHashes' = done.cspHashes

\* build() up to the await: each task checks that its file exists and, if
\* so, calls processFile, which waits for the file to be read
ProcessorStart ==
    /\ impl = "processor" /\ pc = "start"
    /\ pc' = "building"
    /\ pending' = {f \in ManifestFiles : existsSync(f)}
    /\ UNCHANGED <<inbox, scan, page, menu, flight, js, impl, disk, faults, files, cspHashes, step, resp>>

\* one task settles: its entry is put into the table, or it is rejected
ProcessorTask ==
    /\ impl = "processor" /\ pc = "building"
    /\ \E f \in pending :
          /\ pending' = pending \ {f}
          /\ IF ProcessFileOk(f)
             THEN Settled(processFile(f))
             ELSE UNCHANGED <<files, cspHashes>>
    /\ UNCHANGED <<inbox, scan, page, menu, flight, js, impl, disk, faults, pc, step, resp>>

\* all tasks have settled: the policy is published and the server listens
ProcessorListen ==
    /\ impl = "processor" /\ pc = "building" /\ pending = {}
    /\ files' = MapSet(files, CspKey, ProcessorGenerateCSP(cspHashes))
    /\ pc' = "listening"
    /\ UNCHANGED <<inbox, scan, page, menu, flight, js, impl, disk, faults, cspHashes, step, pending, resp>>

(***************************************************************************)
(* Requests and responses.  A request is [url, headers], a response        *)
(* [statusCode, headers, body]; headers map a header name to its value and *)
(* hold the headers that are present only.                                 *)
(***************************************************************************)
\* a faulty handler: the response object of the handler called before is
\* written again
LastResponse ==
    IF resp = <<>> THEN [statusCode |-> 200, headers |-> EmptyMap, body |-> <<>>]
    ELSE resp[2]

\* the res object a handler is given
NewResponse == [statusCode |-> 200, headers |-> EmptyMap, body |-> <<>>]

\* res.setHeader(name, value)
setHeader(res, name, value) ==
    [res EXCEPT !.headers = MapSet(@, name, value)]

\* res.end(body)
end(res, body) == [res EXCEPT !.body = body]

HasHeader(msg, name) == name \in DOMAIN msg.headers

\* a faulty lookup: the request target as it was sent, without its query
PathAsSent(url) ==
    LET cuts == {k \in 1..Len(url) : url[k] \in {"?", "#"}}
    IN  IF cuts = {} THEN url ELSE SubSeq(url, 1, MinOf(cuts) - 1)

\* new URL(req.url, base).pathname for a url that is a path and perhaps a
\* query or a fragment; a path that does not begin with "/" is taken from
\* the root of the base
UrlPathname(url) ==
    LET cuts == {k \in 1..Len(url) : url[k] \in {"?", "#"}}
        path == IF cuts = {} THEN url ELSE SubSeq(url, 1, MinOf(cuts) - 1)
    IN  IF path = <<>> \/ path[1] # "/" THEN <<"/">> \o path ELSE path

UnderRoot(pathname) ==
    IF Len(pathname) > 0 /\ pathname[1] = "/" THEN Tail(pathname) ELSE pathname

\* the fixed headers setSecurityHeaders sets
SecurityBundle ==
    ("X-Content-Type-Options" :> "nosniff")
    @@ ("X-Frame-Options" :> "DENY")
    @@ ("X-XSS-Protection" :> "1; mode=block")
    @@ ("Referrer-Policy" :> "strict-origin-when-cross-origin")
    @@ ("Strict-Transport-Security" :> "max-age=31536000; includeSubDomains; preload")
    @@ ("Permissions-Policy" :>
          "geolocation=(), microphone=(), camera=(), payment=(), usb=(), magnetometer=(), gyroscope=(), speaker=()")

\* a faulty setSecurityHeaders: the policy is left out
BundleOnly(res) == [res EXCEPT !.headers = SecurityBundle @@ @]

\* setSecurityHeaders (both programs): the bundle, and the policy if the
\* table holds one
setSecurityHeaders(res) ==
    LET fixed == [res EXCEPT !.headers = SecurityBundle @@ @]
    IN  IF CspKey \in DOMAIN files /\ files[CspKey] # <<>>
        THEN setHeader(fixed, "Content-Security-Policy", files[CspKey])
        ELSE fixed

\* /\bbr\b/ and /\bgzip\b/
BrWordRe   == ReSeq(<<ReWordB, ReLit(<<"b", "r">>), ReWordB>>)
GzipWordRe == ReSeq(<<ReWordB, ReLit(<<"g", "z", "i", "p">>), ReWordB>>)

\* req.headers["accept-encoding"] || ""
AcceptEncodingOf(req) ==
    IF HasHeader(req, "accept-encoding") THEN req.headers["accept-encoding"]
    ELSE <<>>

\* negotiateEncoding (server.js); AssetProcessor.serveFile tests the same
\* two expressions in place
negotiateEncoding(req) ==
    [br |-> Test(BrWordRe, AcceptEncodingOf(req)),
     gz |-> Test(GzipWordRe, AcceptEncodingOf(req))]

\* a faulty selection: Gzip is preferred to Brotli
SelectGzipFirst(enc, entry) ==
    IF enc.gz /\ entry.gz # NoBuffer
    THEN [body |-> entry.gz, tag |-> entry.gzEtag, encoding |-> "gzip"]
    ELSE IF enc.br /\ entry.br # NoBuffer
    THEN [body |-> entry.br, tag |-> entry.brEtag, encoding |-> "br"]
    ELSE [body |-> entry.body, tag |-> entry.etag, encoding |-> ""]

\* the if / else if of serveEntry and serveFile: body, tag and the
\* Content-Encoding to set ("" for none)
SelectVariant(enc, entry) ==
    IF enc.br /\ entry.br # NoBuffer
    THEN [body |-> entry.br, tag |-> entry.brEtag, encoding |-> "br"]
    ELSE IF enc.gz /\ entry.gz # NoBuffer
    THEN [body |-> entry.gz, tag |-> entry.gzEtag, encoding |-> "gzip"]
    ELSE [body |-> entry.body, tag |-> entry.etag, encoding |-> ""]

\* a faulty comparison: any If-None-Match header counts as a match
IfNoneMatchPresent(req, tag) == HasHeader(req, "if-none-match")

\* req.headers["if-none-match"] === tag
IfNoneMatchIs(req, tag) ==
    HasHeader(req, "if-none-match") /\ req.headers["if-none-match"] = tag

\* the end of serveEntry and serveFile, from the selected variant sel on:
\* Content-Encoding and ETag, then 304 without a body or 200 with it
SendVariant(req, res, sel) ==
    LET r5 == IF sel.encoding # ""
              THEN setHeader(res, "Content-Encoding", sel.encoding) ELSE res
        r6 == setHeader(r5, "ETag", sel.tag)
    IN  IF IfNoneMatchIs(req, sel.tag)
        THEN end([r6 EXCEPT !.statusCode = 304], <<>>)
        ELSE end([r6 EXCEPT !.statusCode = 200], sel.body)

\* a faulty serveEntry: Vary is set only when a compressed variant goes out
VaryWhenEncoded(req, res, entry) ==
    SendVariant(req,
        IF SelectVariant(negotiateEncoding(req), entry).encoding = ""
        THEN setHeader(setHeader(setSecurityHeaders(res),
                                 "Content-Type", entry.type),
                       "Cache-Control", entry.cache)
        ELSE setHeader(setHeader(setHeader(setSecurityHeaders(res),
                                           "Content-Type", entry.type),
                                 "Cache-Control", entry.cache),
                       "Vary", "Accept-Encoding"),
        SelectVariant(negotiateEncoding(req), entry))
\* serveEntry (server.js) and AssetProcessor.serveFile
serveEntry(req, res, entry) ==
    SendVariant(req,
        setHeader(setHeader(setHeader(setSecurityHeaders(res),
                                      "Content-Type", entry.type),
                            "Cache-Control", entry.cache),
                  "Vary", "Accept-Encoding"),
        SelectVariant(negotiateEncoding(req), entry))

serveFile(req, res, entry) ==
    SendVariant(req,
        setHeader(setHeader(setHeader(setSecurityHeaders(res),
                                      "Content-Type", entry.type),
                            "Cache-Control", entry.cache),
                  "Vary", "Accept-Encoding"),
        SelectVariant(negotiateEncoding(req), entry))

\* notFound (server.js) and the last lines of handleRequest
notFound(req, res) ==
    LET r1 == setSecurityHeaders(res)
        r2 == setHeader([r1 EXCEPT !.statusCode = 404],
                        "Content-Type", "text/plain; charset=utf-8")
    IN  end(r2, BufferFrom(<<"4", "0", "4", " ", "N", "o", "t", " ", "F", "o", "u", "n", "d">>))

\* a faulty handler: the root path is not rewritten
NoAlias(pathname) == pathname

\* if (pathname === "/") pathname = "/index.html"
RootAlias(pathname) == IF pathname = <<"/">> THEN <<"/", "i", "n", "d", "e", "x", ".", "h", "t", "m", "l">> ELSE pathname

\* handler (server.js)
handler(req, res) ==
    LET pathname == RootAlias(UrlPathname(req.url))
        fallback == UnderRoot(pathname)
    IN  IF pathname \in DOMAIN files
        THEN serveEntry(req, res, files[pathname])
        ELSE IF existsSync(fallback) /\ isFile(fallback)
        THEN serveEntry(req, res,
                 ServerTmpEntry(fallback, BufferFrom(disk[fallback].content)))
        ELSE notFound(req, res)

\* AssetProcessor.handleRequest
handleRequest(req, res) ==
    LET pathname     == RootAlias(UrlPathname(req.url))
        fallbackPath == UnderRoot(pathname)
    IN  IF pathname \in DOMAIN files
        THEN serveFile(req, res, files[pathname])
        ELSE IF existsSync(fallbackPath) /\ isFile(fallbackPath)
        THEN serveFile(req, res,
                 ProcessorTempEntry(fallbackPath,
                                    BufferFrom(disk[fallbackPath].content)))
        ELSE notFound(req, res)

\* the requests a client sends: these urls, an Accept-Encoding header or
\* none, and an If-None-Match header or none that holds a tag of no body or
\* a tag the processes may have sent for that url before
Urls == {<<"/">>, <<"/", "i", "n", "d", "e", "x", ".", "h", "t", "m", "l">>, <<"/", "?", "v", "=", "1">>, <<"/", "r", "o", "b", "o", "t", "s", ".", "t", "x", "t">>, <<"/", "n", "o", "t", "e", "s", ".", "t", "x", "t">>, <<"/", "a", "s", "s", "e", "t", "s">>, <<"/", "m", "i", "s", "s", "i", "n", "g">>,
         <<"/", "A", ".", "C", "S", "S">>, <<"/", "L", "I", "C", "E", "N", "S", "E">>}
AcceptEncodings == {<<"b", "r">>, <<"g", "z", "i", "p">>, <<"g", "z", "i", "p", ",", " ", "b", "r">>, <<"b", "r", "x">>}
StaleTag == <<"W", "/", "\"", "0", "-", "0", "\"">>

TagsFor(url) ==
    LET pathname == RootAlias(UrlPathname(url))
        fallback == UnderRoot(pathname)
    IN  IF pathname \in DOMAIN files
        THEN {files[pathname].etag, files[pathname].brEtag, files[pathname].gzEtag}
                \ {NoTag}
        ELSE IF existsSync(fallback) /\ isFile(fallback)
        THEN {etag(BufferFrom(disk[fallback].content))}
        ELSE {}

HeadersOf(ae, inm) ==
    (IF ae = <<>> THEN EmptyMap ELSE ("accept-encoding" :> ae[1]))
    @@ (IF inm = <<>> THEN EmptyMap ELSE ("if-none-match" :> inm[1]))

Requests ==
    {[url |-> x[1], headers |-> HeadersOf(x[2], x[3])] :
        x \in UNION {
            {<<url, ae, inm>> :
                ae \in {<<>>} \cup {<<a>> : a \in AcceptEncodings},
                inm \in {<<>>, <<StaleTag>>} \cup {<<t>> : t \in TagsFor(url)}} :
            url \in Urls}}

\* a faulty handler: the entry made for a fallback read is kept in the table
CachingFallback(req) ==
    LET pathname == RootAlias(UrlPathname(req.url))
        fallback == UnderRoot(pathname)
    IN  IF pathname \notin DOMAIN files /\ existsSync(fallback) /\ isFile(fallback)
        THEN MapSet(files, pathname,
                 ServerTmpEntry(fallback, BufferFrom(disk[fallback].content)))
        ELSE files

\* the serving table when handler / handleRequest has answered req: no path
\* of either calls files.set, files.delete or files.clear
TableAfterRequest(req) == files

\* http.createServer(handler) takes a request: the handler runs to its end
ServerRequest ==
    /\ impl = "server" /\ pc = "listening" /\ resp = <<>>
    /\ \E req \in Requests :
          /\ resp' = <<req, handler(req, NewResponse)>>
          /\ files' = TableAfterRequest(req)
    /\ UNCHANGED <<inbox, scan, page, menu, flight, js, impl, disk, faults, cspHashes, pc, step, pending>>

ProcessorRequest ==
    /\ impl = "processor" /\ pc = "listening" /\ resp = <<>>
    /\ \E req \in Requests :
          /\ resp' = <<req, handleRequest(req, NewResponse)>>
          /\ files' = TableAfterRequest(req)
    /\ UNCHANGED <<inbox, scan, page, menu, flight, js, impl, disk, faults, cspHashes, pc, step, pending>>

\* the response has gone out
Sent ==
    /\ resp # <<>>
    /\ resp' = <<>>
    /\ UNCHANGED <<inbox, scan, page, menu, flight, js, impl, disk, faults, files, cspHashes, pc, step, pending>>

Next ==
    \/ ServerStart \/ ServerLoad \/ ServerListen
    \/ ProcessorStart \/ ProcessorTask \/ ProcessorListen
    \/ ServerRequest \/ ProcessorRequest \/ Sent

Spec == Init /\ [][Next]_vars

(***************************************************************************)
(* minifyJS on its own: a script is typed character by character and then  *)
(* handed to both minifiers.                                               *)
(***************************************************************************)
\* the length of the scripts
MaxJsLen == 4

\* the characters the scripts are made of: the quotes, and the characters
\* the rewrites of the minifiers look for
JsAlphabet == {"\"", "'", ";", "}", "$", "&", "a", " "}

JsInit ==
    /\ js = NoJs
    /\ flight = EmptyMap
    /\ page = NoPage
    /\ menu = NoMenu
    /\ scan = NoScan
    /\ inbox = {}
    /\ impl = "server"
    /\ disk = DiskOf(DocPlain, {})
    /\ faults = {}
    /\ files = EmptyMap
    /\ cspHashes = [scripts |-> <<>>, styles |-> <<>>]
    /\ pc = "start"
    /\ step = 0
    /\ pending = {}
    /\ resp = <<>>

JsType ==
    /\ ~js.minified /\ Len(js.src) < MaxJsLen
    /\ \E c \in JsAlphabet : js' = [js EXCEPT !.src = Append(@, c)]
    /\ UNCHANGED <<inbox, scan, page, menu, flight, impl, disk, faults, files, cspHashes, pc, step, pending, resp>>

JsMinify ==
    /\ ~js.minified
    /\ js' = [js EXCEPT !.minified  = TRUE,
                        !.server    = ServerMinifyJS(js.src),
                        !.processor = ProcessorMinifyJS(js.src)]
    /\ UNCHANGED <<inbox, scan, page, menu, flight, impl, disk, faults, files, cspHashes, pc, step, pending, resp>>

JsNext == JsType \/ JsMinify

SpecJS == JsInit /\ [][JsNext]_vars

(***************************************************************************)
(* The build with its compressions seen one by one.  preCompress starts    *)
(* zlib.brotliCompress and calls zlib.gzip from the Brotli callback;       *)
(* AssetProcessor.compress starts both and awaits Promise.all.  All files  *)
(* can be read here; server.js has the whole manifest before it and the    *)
(* AssetProcessor the files of FlightFiles.                                *)
(***************************************************************************)
\* the manifest files the AssetProcessor finds in ROOT
FlightFiles == {<<"i", "n", "d", "e", "x", ".", "h", "t", "m", "l">>, <<"r", "o", "b", "o", "t", "s", ".", "t", "x", "t">>, <<"s", "i", "t", "e", "m", "a", "p", ".", "x", "m", "l">>}

\* the failures of compression
FlightFaults == {<<k, f>> : k \in {"br", "gz", "zlib"}, f \in CompressFaultFiles}

FlightInit ==
    /\ impl \in {"server", "processor"}
    /\ disk = DiskOf(DocPlain,
                     IF impl = "server" THEN {} ELSE ManifestFiles \ FlightFiles)
    /\ faults \in SubsetsUpTo(FlightFaults, MaxFaults)
    /\ files = EmptyMap
    /\ cspHashes = [scripts |-> <<>>, styles |-> <<>>]
    /\ pc = "start"
    /\ step = 0
    /\ pending = {}
    /\ resp = <<>>
    /\ js = NoJs
    /\ flight = EmptyMap
    /\ page = NoPage
    /\ menu = NoMenu
    /\ scan = NoScan
    /\ inbox = {}

\* a callback of zlib has come back, with a buffer or with an error
Settles(ok) == IF ok THEN "done" ELSE "failed"
IsSettled(state) == state \in {"done", "failed"}

\* a faulty wait: the entry goes out when the Brotli callback has come back
BrotliSettled(relPath) == IsSettled(flight[relPath].br)

\* the promise of preCompress / compress is resolved: the Gzip callback has
\* come back after the Brotli one (server.js), Promise.all has both results
\* (AssetProcessor)
BothSettled(relPath) ==
    IsSettled(flight[relPath].br) /\ IsSettled(flight[relPath].gz)

\* the files whose processing is at its call of preCompress / compress
AtCompress ==
    IF impl = "server"
    THEN {f \in ManifestFiles : step <= Len(Manifest) /\ f = Manifest[step]}
    ELSE pending

\* loadAndMinify / processFile has read and minified the file and calls
\* preCompress / compress
CompressStart ==
    /\ pc = "building"
    /\ \E f \in AtCompress \ DOMAIN flight :
          /\ Readable(f)
          /\ flight' = MapSet(flight, f,
                [br |-> "running",
                 gz |-> IF impl = "server" THEN "waiting" ELSE "running"])
    /\ UNCHANGED <<inbox, scan, page, menu, js, impl, disk, faults, files, cspHashes, pc, step, pending, resp>>

\* the callback of zlib.brotliCompress; preCompress calls zlib.gzip from it
BrSettles ==
    /\ \E f \in DOMAIN flight :
          /\ flight[f].br = "running"
          /\ flight' = [flight EXCEPT
                ![f] = [br |-> Settles(BrOk(f)),
                        gz |-> IF @.gz = "waiting" THEN "running" ELSE @.gz]]
    /\ UNCHANGED <<inbox, scan, page, menu, js, impl, disk, faults, files, cspHashes, pc, step, pending, resp>>

\* the callback of zlib.gzip
GzSettles ==
    /\ \E f \in DOMAIN flight :
          /\ flight[f].gz = "running"
          /\ flight' = [flight EXCEPT ![f].gz = Settles(GzOk(f))]
    /\ UNCHANGED <<inbox, scan, page, menu, js, impl, disk, faults, files, cspHashes, pc, step, pending, resp>>

\* the await of preCompress / compress is over: the entry is made and
\* files.set puts it into the table
Publish ==
    /\ pc = "building"
    /\ \E f \in AtCompress \cap DOMAIN flight :
          /\ BothSettled(f)
          /\ IF impl = "server"
             THEN /\ Loaded(loadAndMinify(f))
                  /\ step' = step + 1
                  /\ UNCHANGED pending
             ELSE /\ Settled(processFile(f))
                  /\ pending' = pending \ {f}
                  /\ UNCHANGED step
    /\ UNCHANGED <<inbox, scan, page, menu, flight, js, impl, disk, faults, pc, resp>>

FlightNext ==
    \/ ServerStart \/ ProcessorStart
    \/ CompressStart \/ BrSettles \/ GzSettles \/ Publish
    \/ ServerListen \/ ProcessorListen

SpecCompress == FlightInit /\ [][FlightNext]_vars

(***************************************************************************)
(* Properties.  Req and Res are the request being answered and the         *)
(* response the handler has produced for it.                               *)
(***************************************************************************)
Answered == resp # <<>>
Req == resp[1]
Res == resp[2]

\* the url is answered from the table or from a file under ROOT
IsServed(url) ==
    \/ RootAlias(UrlPathname(url)) \in DOMAIN files
    \/ /\ existsSync(UnderRoot(RootAlias(UrlPathname(url))))
       /\ isFile(UnderRoot(RootAlias(UrlPathname(url))))

\* the entry the url is answered from: bodies and tags of its variants
ServedEntry(url) ==
    IF RootAlias(UrlPathname(url)) \in DOMAIN files
    THEN files[RootAlias(UrlPathname(url))]
    ELSE ServerTmpEntry(UnderRoot(RootAlias(UrlPathname(url))),
             BufferFrom(disk[UnderRoot(RootAlias(UrlPathname(url)))].content))

\* the Accept-Encoding header of req names the coding: the word stands in
\* it with no word character next to it
Accepts(req, coding) ==
    \E i \in 1..Len(AcceptEncodingOf(req)) :
        /\ StartsWithAt(AcceptEncodingOf(req), i, coding)
        /\ ~IsWordAt(AcceptEncodingOf(req), i - 1)
        /\ ~IsWordAt(AcceptEncodingOf(req), i + Len(coding))

\* the Content-Encoding of a response, "" when it has none
EncodingOf(res) ==
    IF HasHeader(res, "Content-Encoding") THEN res.headers["Content-Encoding"]
    ELSE ""

\* the bytes and the tag of the variant of entry that encoding names
VariantBytes(entry, encoding) ==
    CASE encoding = "br"   -> entry.br
      [] encoding = "gzip" -> entry.gz
      [] OTHER             -> entry.body

VariantTag(entry, encoding) ==
    CASE encoding = "br"   -> entry.brEtag
      [] encoding = "gzip" -> entry.gzEtag
      [] OTHER             -> entry.etag

\* the encoding the claim asks for: Brotli, else Gzip, else none, each only
\* if the request names it and the entry has it
PreferredEncoding(req, entry) ==
    IF Accepts(req, <<"b", "r">>) /\ entry.br # NoBuffer THEN "br"
    ELSE IF Accepts(req, <<"g", "z", "i", "p">>) /\ entry.gz # NoBuffer THEN "gzip"
    ELSE ""

\* C1: every response that serves an entry carries the Brotli variant and
\* Content-Encoding: br if the request accepts br and the entry has that
\* variant, otherwise the Gzip variant and Content-Encoding: gzip if the
\* request accepts gzip and the entry has it, otherwise the uncompressed body
\* and no Content-Encoding header.
C1_EncodingNegotiation ==
    (Answered /\ IsServed(Req.url)) =>
        /\ EncodingOf(Res) = PreferredEncoding(Req, ServedEntry(Req.url))
        /\ Res.statusCode = 200 =>
              Res.body = VariantBytes(ServedEntry(Req.url),
                             PreferredEncoding(Req, ServedEntry(Req.url)))

\* a request that accepts both encodings is answered with the Gzip variant
\* of an entry that has no Brotli variant
C1_Witness ==
    /\ Answered /\ IsServed(Req.url)
    /\ Accepts(Req, <<"b", "r">>) /\ Accepts(Req, <<"g", "z", "i", "p">>)
    /\ ServedEntry(Req.url).br = NoBuffer
    /\ EncodingOf(Res) = "gzip" /\ Res.statusCode = 200
    /\ Res.body = ServedEntry(Req.url).gz

\* C2: a request whose If-None-Match equals the tag of the variant selected
\* for it gets 304 and an empty body; any other request (no If-None-Match, a
\* stale tag, the tag of another variant) gets 200 and the selected body.
\* Either way the ETag header is the tag of the variant that Content-Encoding
\* names.
C2_ConditionalRequest ==
    (Answered /\ IsServed(Req.url)) =>
        /\ HasHeader(Res, "ETag")
        /\ Res.headers["ETag"] = VariantTag(ServedEntry(Req.url), EncodingOf(Res))
        /\ Res.headers["ETag"] # NoTag
        /\ IF /\ HasHeader(Req, "if-none-match")
              /\ Req.headers["if-none-match"] = Res.headers["ETag"]
           THEN Res.statusCode = 304 /\ Res.body = <<>>
           ELSE /\ Res.statusCode = 200
                /\ Res.body = VariantBytes(ServedEntry(Req.url), EncodingOf(Res))

\* a request that carries the tag of the uncompressed body and is answered
\* with the Brotli variant gets 200
C2_Witness ==
    /\ Answered /\ IsServed(Req.url)
    /\ HasHeader(Req, "if-none-match")
    /\ Req.headers["if-none-match"] = ServedEntry(Req.url).etag
    /\ EncodingOf(Res) = "br"
    /\ Res.statusCode = 200 /\ Res.body = ServedEntry(Req.url).br

\* the entries of the table (all keys but the policy's)
Entries == {files[k] : k \in DOMAIN files \ {CspKey}}

\* C3: in every entry of the table each tag is computed from the bytes of
\* its own variant, and no compressed variant carries the tag of the body
\* or of the other variant.
C3_TagBodyCoherence ==
    \A e \in Entries :
        /\ e.etag = etag(e.body)
        /\ e.br # NoBuffer =>
              e.brEtag = etag(e.br) /\ e.brEtag # e.etag /\ e.brEtag # e.gzEtag
        /\ e.gz # NoBuffer =>
              e.gzEtag = etag(e.gz) /\ e.gzEtag # e.etag /\ e.gzEtag # e.brEtag
        /\ e.br = NoBuffer => e.brEtag = NoTag
        /\ e.gz = NoBuffer => e.gzEtag = NoTag

\* the build has put an entry with both compressed variants into the table
C3_Witness ==
    \E e \in Entries : e.br # NoBuffer /\ e.gz # NoBuffer /\ e.body # <<>>

\* the key of index.html in the table
IndexKey == <<"/", "i", "n", "d", "e", "x", ".", "h", "t", "m", "l">>

\* the words of the directive called name in a policy
SourcesIn(policy, name) ==
    UNION {{policy[d].sources[k] : k \in 1..Len(policy[d].sources)} :
              d \in {x \in 1..Len(policy) : policy[x].name = name}}

\* the 'sha256-...' words among them
TokensIn(policy, name) ==
    {s \in SourcesIn(policy, name) : s[1] = "'sha256-"}

\* the 'sha256-...' words of the non-empty inline bodies blockRe finds in html
DigestsOf(html, blockRe, tagRe) ==
    {Sha256Source(calculateHash(InlineBodies(html, blockRe, tagRe)[k])) :
        k \in 1..Len(InlineBodies(html, blockRe, tagRe))}

\* C4: the hashes of the published policy are those of the served
\* index.html: every 'sha256-...' word of the script and style directives is
\* the digest of an inline script or style body of the served body, and every
\* non-empty inline body of the served body has its word in the policy.
C4_PolicyMatchesServedBytes ==
    (pc = "listening" /\ IndexKey \in DOMAIN files) =>
        /\ TokensIn(files[CspKey], "script-src")
              = DigestsOf(BufferToString(files[IndexKey].body),
                          InlineScriptRe, AnyScriptTagRe)
        /\ TokensIn(files[CspKey], "style-src")
              = DigestsOf(BufferToString(files[IndexKey].body),
                          InlineStyleRe, AnyStyleTagRe)

\* the five headers of the fixed bundle the claim names
BundleHeaders ==
    {"X-Content-Type-Options", "X-Frame-Options", "Referrer-Policy",
     "Strict-Transport-Security", "Permissions-Policy"}

HasBundle(res) ==
    /\ \A h \in BundleHeaders : HasHeader(res, h)
    /\ res.headers["X-Content-Type-Options"] = "nosniff"
    /\ res.headers["X-Frame-Options"] = "DENY"
    /\ res.headers["Referrer-Policy"] = "strict-origin-when-cross-origin"
    /\ res.headers["Strict-Transport-Security"]
          = "max-age=31536000; includeSubDomains; preload"

\* the policy the build of the running program synthesizes from cspHashes
SynthesizedPolicy ==
    IF impl = "server" THEN ServerGenerateCSP(cspHashes)
    ELSE ProcessorGenerateCSP(cspHashes)

\* C5: every response the handler produces (200, 304 or 404, from the table
\* or from a fallback read) carries the fixed bundle and a
\* Content-Security-Policy header whose value is the policy the build
\* synthesized, and that policy does not change once the server listens.
C5_SecurityHeaders ==
    [][ /\ resp' # <<>> =>
              /\ HasBundle(resp'[2])
              /\ HasHeader(resp'[2], "Content-Security-Policy")
              /\ resp'[2].headers["Content-Security-Policy"] = files[CspKey]
              /\ files[CspKey] = SynthesizedPolicy
        /\ pc = "listening" => files'[CspKey] = files[CspKey] ]_vars

\* a 404 and a 304 that carry the policy
C5_Witness ==
    /\ Answered /\ Res.statusCode \in {304, 404}
    /\ ~IsServed(Req.url) \/ RootAlias(UrlPathname(Req.url)) \notin DOMAIN files
    /\ HasBundle(Res)
    /\ Res.headers["Content-Security-Policy"] = files[CspKey]

\* the character at index j of text is escaped: an odd number of
\* backslashes stands before it
IsEscaped(text, j) ==
    \E n \in 1..(j - 1) :
        /\ n % 2 = 1
        /\ \A k \in (j - n)..(j - 1) : text[k] = "\\"
        /\ (j - n = 1 \/ text[j - n - 1] # "\\")

RECURSIVE LiteralsFrom(_, _)
\* the string and template literals of text from index i on, as pairs
\* <<opening quote, closing quote>> of indices
LiteralsFrom(text, i) ==
    IF i > Len(text) THEN {}
    ELSE IF text[i] \notin {"\"", "'", Backtick} THEN LiteralsFrom(text, i + 1)
    ELSE IF {j \in (i + 1)..Len(text) : text[j] = text[i] /\ ~IsEscaped(text, j)} = {}
    THEN {}
    ELSE {<<i, MinOf({j \in (i + 1)..Len(text) :
                        text[j] = text[i] /\ ~IsEscaped(text, j)})>>}
         \cup LiteralsFrom(text,
                  MinOf({j \in (i + 1)..Len(text) :
                           text[j] = text[i] /\ ~IsEscaped(text, j)}) + 1)

\* text occurs in out
Occurs(text, out) ==
    \E k \in 1..(Len(out) - Len(text) + 1) :
        SubSeq(out, k, k + Len(text) - 1) = text

\* every literal of text stands in out, quote to quote, as it was written
LiteralsKept(text, out) ==
    \A l \in LiteralsFrom(text, 1) : Occurs(SubSeq(text, l[1], l[2]), out)

\* C6: the JS minifier never alters the contents of a string or template
\* literal: the characters from an opening quote to its closing quote stand
\* in the output as they were written, for server.js minifyJS and for
\* AssetProcessor.minifyJS.
C6_LiteralsUnaltered ==
    js.minified =>
        /\ LiteralsKept(js.src, js.server)
        /\ LiteralsKept(js.src, js.processor)

\* the processing of manifest file f on its own succeeds: what it reads can
\* be read
OwnProcessingSucceeds(f) ==
    IF impl = "processor" THEN ProcessFileOk(f) ELSE Readable(f)

TableKey(f) == <<"/">> \o f

\* C7: if reading, transforming or compressing one manifest entry fails,
\* build() still completes, every other entry whose own processing succeeds
\* is in the table, and the policy is published.  (All manifest files exist
\* here; absent files are the matter of C8.)
C7_FailureIsolation ==
    (ManifestFiles \subseteq DOMAIN disk) =>
        /\ pc # "exited"
        /\ pc = "listening" =>
              /\ CspKey \in DOMAIN files
              /\ \A f \in ManifestFiles :
                    OwnProcessingSucceeds(f) => TableKey(f) \in DOMAIN files

\* C8: a manifest entry whose file is absent at build time is skipped
\* without failing the build, no table entry is created for it, and every
\* present manifest entry is built.  (Nothing else fails here.)
C8_PartialManifest ==
    (faults = {}) =>
        /\ pc # "exited"
        /\ pc = "listening" =>
              \A f \in ManifestFiles :
                  existsSync(f) <=> TableKey(f) \in DOMAIN files

\* the response of the running program to a request
Response(req) ==
    IF impl = "server" THEN handler(req, NewResponse)
    ELSE handleRequest(req, NewResponse)

\* the header combinations of the requests for url
HeaderChoices(url) ==
    {HeadersOf(ae, inm) :
        ae \in {<<>>} \cup {<<a>> : a \in AcceptEncodings},
        inm \in {<<>>, <<StaleTag>>} \cup {<<t>> : t \in TagsFor(url)}}

\* C9: with the same Accept-Encoding and If-None-Match headers, a request
\* for "/" gets the same response (status, headers, ETag, body) as a request
\* for "/index.html".
C9_RootAliasing ==
    (pc = "listening" /\ resp = <<>>) =>
        \A h \in HeaderChoices(IndexKey) :
            Response([url |-> <<"/">>, headers |-> h])
                = Response([url |-> IndexKey, headers |-> h])

\* a request for "/" has been answered with the entry of index.html
C9_Witness ==
    /\ Answered /\ Req.url = <<"/">>
    /\ IndexKey \in DOMAIN files
    /\ Res.statusCode \in {200, 304}
    /\ Res.headers["ETag"] = VariantTag(files[IndexKey], EncodingOf(Res))
    /\ Res = Response([url |-> IndexKey, headers |-> Req.headers])

\* the names of the script and the style directives
ScriptDirectives == {"script-src", "script-src-elem"}
StyleDirectives  == {"style-src", "style-src-elem"}

\* C10: the style directives of the published policy contain
\* 'unsafe-inline' if and only if no inline style hash was found; the script
\* directives never contain it, and are exactly 'self' when no inline script
\* hash was found.
C10_FallbackAsymmetry ==
    pc = "listening" =>
        /\ \A name \in StyleDirectives :
              SourcesIn(files[CspKey], name) # {} =>
                  (Keyword("'unsafe-inline'") \in SourcesIn(files[CspKey], name)
                      <=> cspHashes.styles = <<>>)
        /\ \A name \in ScriptDirectives :
              SourcesIn(files[CspKey], name) # {} =>
                  /\ Keyword("'unsafe-inline'") \notin SourcesIn(files[CspKey], name)
                  /\ cspHashes.scripts = <<>> =>
                        SourcesIn(files[CspKey], name) = {Keyword("'self'")}

\* build() has run to its end: every manifest file has been gone through,
\* the files whose processing succeeds are in the table and so is the policy
BuildFinished ==
    /\ CspKey \in DOMAIN files
    /\ \A f \in ManifestFiles :
          OwnProcessingSucceeds(f) => TableKey(f) \in DOMAIN files
    /\ impl = "server" => step > Len(Manifest)
    /\ impl = "processor" => pending = {}

\* build() is about to reject: server.js is to load a file that cannot be
\* read (AssetProcessor.build awaits Promise.allSettled and never rejects)
BuildRejects ==
    /\ impl = "server" /\ pc = "building" /\ step <= Len(Manifest)
    /\ step > 3 => Manifest[step] \in DOMAIN disk
    /\ ~Readable(Manifest[step])

\* C11: the server listens only after build() has finished, so a request is
\* handled only when the table is fully populated and holds the policy; if
\* build() rejects the process exits, and an exited process never listens
\* and answers nothing.
C11_BuildBeforeServe ==
    [][ /\ resp' # <<>> => (pc = "listening" /\ BuildFinished)
        /\ pc' = "listening" => BuildFinished'
        /\ BuildRejects => pc' = "exited"
        /\ pc = "exited" => (pc' = "exited" /\ resp' = <<>>) ]_vars

\* a request is answered after a build that skipped an absent manifest file
C11_Witness ==
    /\ Answered /\ pc = "listening"
    /\ \E f \in ManifestFiles : f \notin DOMAIN disk
    /\ Res.statusCode = 200

\* C12: once build() has completed, handling a request (table hit, fallback
\* read or not-found, 304 or 200) leaves the serving table as it was: no key
\* or entry is added, removed or modified.
C12_TableImmutable ==
    [][pc = "listening" => files' = files]_vars

\* a fallback read has been answered with the file and the table holds no
\* entry for it
C12_Witness ==
    /\ Answered /\ Res.statusCode = 200
    /\ RootAlias(UrlPathname(Req.url)) \notin DOMAIN files
    /\ UnderRoot(RootAlias(UrlPathname(Req.url))) \in DOMAIN disk

\* tag is W/"<checksum>-<length>" with a checksum of exactly 8 hexadecimal
\* digits and the decimal length of a buffer of len bytes
IsTagOf(tag, len) ==
    tag = <<"W", "/", "\"">> \o SubSeq(tag, 4, 11) \o <<"-">> \o ToRadix(len, 10) \o <<"\"">>
        /\ \A k \in 4..11 : tag[k] \in HexDigits

\* C13: the tag of every byte buffer has the form W/"<checksum>-<length>"
\* with exactly 8 hexadecimal digits of checksum and the decimal byte length
\* of the buffer: so have the tags of every variant in the table and the tag
\* of every body sent.
C13_TagFormat ==
    /\ \A e \in Entries :
          /\ IsTagOf(e.etag, Len(e.body))
          /\ e.br # NoBuffer => IsTagOf(e.brEtag, Len(e.br))
          /\ e.gz # NoBuffer => IsTagOf(e.gzEtag, Len(e.gz))
    /\ (Answered /\ Res.statusCode = 200) =>
          IsTagOf(Res.headers["ETag"], Len(Res.body))

\* the faults that are failures of compression
CompressFaults == {x \in faults : x[1] \in {"br", "gz", "zlib"}}

\* C14: every entry of the table has its canonical body and the tag of that
\* body, whatever became of the compressions; a file whose Brotli and / or
\* Gzip compression failed is still published, with exactly the failed
\* variants absent, and failures of compression alone do not fail the build.
C14_CanonicalBody ==
    /\ \A e \in Entries : e.body # NoBuffer /\ e.etag = etag(e.body)
    /\ (faults = CompressFaults /\ ManifestFiles \subseteq DOMAIN disk) =>
          pc # "exited"
    /\ pc = "listening" =>
          \A f \in ManifestFiles : OwnProcessingSucceeds(f) =>
              /\ TableKey(f) \in DOMAIN files
              /\ files[TableKey(f)].br = NoBuffer <=> ~BrOk(f)
              /\ files[TableKey(f)].gz = NoBuffer <=> ~GzOk(f)

\* both compressions of a file have failed and its entry is in the table,
\* with its body only
C14_Witness ==
    /\ pc = "listening"
    /\ \E f \in ManifestFiles :
          /\ <<"zlib", f>> \in faults
          /\ TableKey(f) \in DOMAIN files
          /\ files[TableKey(f)].body = BufferFrom(disk[f].content)
          /\ files[TableKey(f)].br = NoBuffer /\ files[TableKey(f)].gz = NoBuffer

\* C15: minifying a minified script again changes nothing, for minifyJS of
\* server.js and of AssetProcessor.
C15_MinifyIdempotent ==
    js.minified =>
        /\ ServerMinifyJS(js.server) = js.server
        /\ ProcessorMinifyJS(js.processor) = js.processor

\* the response carries Vary: Accept-Encoding
HasVary(res) ==
    HasHeader(res, "Vary") /\ res.headers["Vary"] = "Accept-Encoding"

\* C16, as stated: every response the request handler emits carries
\* Vary: Accept-Encoding.
C16_VaryAlways ==
    Answered => HasVary(Res)

\* C16, amended: every response that serves an entry, from the table or from
\* a fallback read, with status 200 or 304 and whichever variant is
\* selected, carries Vary: Accept-Encoding; a 404 response carries no Vary
\* header.
C16_VaryOnServed ==
    Answered =>
        /\ Res.statusCode \in {200, 304} => HasVary(Res)
        /\ Res.statusCode = 404 => ~HasHeader(Res, "Vary")

\* a 304 for the uncompressed variant, sent with Vary
C16_Witness ==
    /\ Answered /\ Res.statusCode = 304
    /\ EncodingOf(Res) = ""
    /\ HasVary(Res)

\* the path a request asks for, and that path relative to ROOT
PathOf(req) == RootAlias(UrlPathname(req.url))
RegularFile(relPath) == relPath \in DOMAIN disk /\ disk[relPath].kind = "file"
RawBytes(relPath) == BufferFrom(disk[relPath].content)

\* res answers req from entry: 200 with the bytes of one of its variants or
\* 304, with the tag of that variant
AnsweredFrom(res, entry) ==
    /\ res.statusCode \in {200, 304}
    /\ res.headers["ETag"] = VariantTag(entry, EncodingOf(res))
    /\ VariantBytes(entry, EncodingOf(res)) # NoBuffer
    /\ res.statusCode = 200 => res.body = VariantBytes(entry, EncodingOf(res))
    /\ res.statusCode = 304 => res.body = <<>>

\* res is the not-found response
IsNotFound(res) ==
    /\ res.statusCode = 404
    /\ res.headers["Content-Type"] = "text/plain; charset=utf-8"
    /\ res.body = BufferFrom(<<"4", "0", "4", " ", "N", "o", "t", " ", "F", "o", "u", "n", "d">>)
    /\ ~HasHeader(res, "ETag")

IsFallbackRead(req) ==
    PathOf(req) \notin DOMAIN files /\ RegularFile(UnderRoot(PathOf(req)))

\* C18: a response of the fallback-read path has no Content-Encoding header
\* whatever the request accepts, sends the raw bytes of the file or a 304
\* for the tag of those bytes, and has the type and the cache directive of
\* the file's path.
C18_FallbackUncompressed ==
    (Answered /\ IsFallbackRead(Req)) =>
        /\ ~HasHeader(Res, "Content-Encoding")
        /\ Res.headers["ETag"] = etag(RawBytes(UnderRoot(PathOf(Req))))
        /\ Res.headers["Content-Type"] =
              (IF impl = "server" THEN contentTypeFor(UnderRoot(PathOf(Req)))
               ELSE getContentType(UnderRoot(PathOf(Req))))
        /\ Res.headers["Cache-Control"] =
              (IF impl = "server" THEN cacheControlFor(UnderRoot(PathOf(Req)))
               ELSE getCacheControl(UnderRoot(PathOf(Req))))
        /\ IF IfNoneMatchIs(Req, etag(RawBytes(UnderRoot(PathOf(Req)))))
           THEN Res.statusCode = 304 /\ Res.body = <<>>
           ELSE Res.statusCode = 200 /\ Res.body = RawBytes(UnderRoot(PathOf(Req)))

\* a fallback read for a request that accepts Brotli and Gzip, answered with
\* the raw bytes
C18_Witness ==
    /\ Answered /\ IsFallbackRead(Req)
    /\ Accepts(Req, <<"b", "r">>) /\ Accepts(Req, <<"g", "z", "i", "p">>)
    /\ Res.statusCode = 200
    /\ Res.body = RawBytes(UnderRoot(PathOf(Req)))

\* path ends with the extension ext, in whatever case it is written
HasExtension(path, ext) ==
    /\ Len(path) > Len(ext)
    /\ \A k \in 1..Len(ext) :
          LowerOf(path[Len(path) - Len(ext) + k]) = ext[k]

\* the Cache-Control the claim gives a path
CacheDirectiveOf(path) ==
    IF HasExtension(path, <<".", "h", "t", "m", "l">>) THEN "no-cache"
    ELSE IF \E ext \in {<<".", "c", "s", "s">>, <<".", "j", "s">>, <<".", "w", "e", "b", "p">>} : HasExtension(path, ext)
    THEN "public, max-age=31536000, immutable"
    ELSE "public, max-age=3600"

\* C19: every entry has the Cache-Control of its path's extension, compared
\* without regard to case: no-cache for .html, the long-lived immutable
\* directive for .css, .js and .webp, the short-lived one for anything else;
\* so have the entries of the table and the responses that serve an entry.
C19_CacheControl ==
    /\ \A key \in DOMAIN files \ {CspKey} :
          files[key].cache = CacheDirectiveOf(key)
    /\ (Answered /\ Res.statusCode \in {200, 304}) =>
          Res.headers["Cache-Control"] = CacheDirectiveOf(PathOf(Req))

\* a file with an upper-case extension is served with the long-lived
\* directive
C19_Witness ==
    /\ Answered /\ Res.statusCode = 200
    /\ PathOf(Req) = <<"/", "A", ".", "C", "S", "S">>
    /\ Res.headers["Cache-Control"] = "public, max-age=31536000, immutable"

\* C20: an entry is in the table only when the Brotli and the Gzip
\* compression of its body have both come back, each with a buffer or with
\* an error, in whichever order; the entry has exactly the variants that
\* came back with a buffer.
C20_PublishAfterCompress ==
    \A f \in ManifestFiles : TableKey(f) \in DOMAIN files =>
        /\ f \in DOMAIN flight
        /\ flight[f].br \in {"done", "failed"}
        /\ flight[f].gz \in {"done", "failed"}
        /\ files[TableKey(f)].br # NoBuffer <=> flight[f].br = "done"
        /\ files[TableKey(f)].gz # NoBuffer <=> flight[f].gz = "done"

\* an entry has been published whose Gzip compression came back while the
\* Brotli compression of another file was still under way
C20_Witness ==
    \E f, g \in ManifestFiles :
        /\ TableKey(f) \in DOMAIN files
        /\ g \in DOMAIN flight
        /\ flight[g].br = "running" /\ flight[g].gz = "failed"

\* The reference FNV-1a on 32-bit words written as four bytes, lowest first.
\* w * 0x01000193 modulo 2^32: 0x01000193 = 2^24 + 2^8 + 0x93
RefTimesPrime(w) ==
    LET t0 == w[1] * 147
        t1 == (w[2] * 147) + w[1] + (t0 \div 256)
        t2 == (w[3] * 147) + w[2] + (t1 \div 256)
        t3 == (w[4] * 147) + w[3] + w[1] + (t2 \div 256)
    IN  <<t0 % 256, t1 % 256, t2 % 256, t3 % 256>>

\* a XOR b on bytes
RefXor(a, b) ==
    IF a = 0 /\ b = 0 THEN 0
    ELSE ((a + b) % 2) + (2 * (((a \div 2) + (b \div 2)) % 2))
                + (4 * (((a \div 4) + (b \div 4)) % 2))
                + (8 * (((a \div 8) + (b \div 8)) % 2))
                + (16 * (((a \div 16) + (b \div 16)) % 2))
                + (32 * (((a \div 32) + (b \div 32)) % 2))
                + (64 * (((a \div 64) + (b \div 64)) % 2))
                + (128 * (((a \div 128) + (b \div 128)) % 2))

RECURSIVE RefFold(_, _, _, _)
\* the reference over the bytes i..j of buf, from the word w
RefFold(buf, i, j, w) ==
    IF i > j THEN w
    ELSE IF i = j
    THEN RefTimesPrime(<<RefXor(w[1], buf[i]), w[2], w[3], w[4]>>)
    ELSE LET first == RefFold(buf, i, (i + j) \div 2, w)
         IN  Last(<<first, RefFold(buf, ((i + j) \div 2) + 1, j, first)>>)

\* FNV-1a of buf from 0x811c9dc5
RefFnv1a(buf) == RefFold(buf, 1, Len(buf), <<197, 157, 28, 129>>)

\* the value of a hexadecimal digit
NibbleOf(c) ==
    CHOOSE d \in 0..15 :
        <<"0", "1", "2", "3", "4", "5", "6", "7", "8", "9", "a", "b", "c", "d", "e", "f">>[d + 1] = c \/ <<"0", "1", "2", "3", "4", "5", "6", "7", "8", "9", "A", "B", "C", "D", "E", "F">>[d + 1] = c

\* the checksum written in a tag, as four bytes, lowest first
ChecksumIn(tag) ==
    LET dash   == MinOf({k \in 1..Len(tag) : tag[k] = "-"})
        digits == SubSeq(tag, 4, dash - 1)
        padded == [k \in 1..(8 - Len(digits)) |-> "0"] \o digits
    IN  [k \in 1..4 |->
            (16 * NibbleOf(padded[9 - (2 * k)])) + NibbleOf(padded[10 - (2 * k)])]

\* C21: the checksum in the tag of every byte buffer is the reference 32-bit
\* FNV-1a of the buffer: so are the checksums in the tags of every variant
\* in the table and in the tag of every body sent.
C21_ChecksumIsFnv1a ==
    /\ \A e \in Entries :
          /\ ChecksumIn(e.etag) = RefFnv1a(e.body)
          /\ e.br # NoBuffer => ChecksumIn(e.brEtag) = RefFnv1a(e.br)
          /\ e.gz # NoBuffer => ChecksumIn(e.gzEtag) = RefFnv1a(e.gz)
    /\ (Answered /\ Res.statusCode = 200) =>
          ChecksumIn(Res.headers["ETag"]) = RefFnv1a(Res.body)

\* an entry whose checksum has its highest bit set, a negative number as a
\* signed 32-bit integer, and one whose checksum has it clear
C21_Witness ==
    /\ \E e \in Entries : ChecksumIn(e.etag)[4] >= 128
    /\ \E e \in Entries : ChecksumIn(e.etag)[4] < 128
    /\ Answered /\ Res.statusCode = 200

(***************************************************************************)
(* The extraction of inline content and the policy made of it, on          *)
(* documents put together element by element: extractInlineContent and     *)
(* generateCSP (server.js), extractCSPHashes and generateCSP               *)
(* (AssetProcessor), called twice in a row on the same module state.       *)
(***************************************************************************)
\* the elements of a document at most
MaxElements == 2

\* an element: its tag, the text of its attributes, whether one of them is
\* src, and its inner text
Element(tag, attrs, src, inner) ==
    [tag |-> tag, attrs |-> attrs, src |-> src, inner |-> inner]

PageElements ==
    { Element(<<"s", "c", "r", "i", "p", "t">>, <<>>, FALSE, <<"a">>),
      Element(<<"s", "c", "r", "i", "p", "t">>, <<>>, FALSE, <<" ", "a", " ">>),
      Element(<<"s", "c", "r", "i", "p", "t">>, <<>>, FALSE, <<"b">>),
      Element(<<"s", "c", "r", "i", "p", "t">>, <<>>, FALSE, <<>>),
      Element(<<"s", "c", "r", "i", "p", "t">>, <<" ", "s", "r", "c", "=", "\"", "a", ".", "j", "s", "\"">>, TRUE, <<>>),
      Element(<<"s", "c", "r", "i", "p", "t">>, <<" ", "s", "r", "c", "=", "\"", "a", ".", "j", "s", "\"">>, TRUE, <<"b">>),
      Element(<<"s", "c", "r", "i", "p", "t">>, <<" ", "d", "a", "t", "a", "-", "s", "r", "c", "=", "\"", "a", ".", "j", "s", "\"">>, FALSE, <<"c">>),
      Element(<<"s", "t", "y", "l", "e">>, <<>>, FALSE, <<"a">>),
      Element(<<"s", "t", "y", "l", "e">>, <<>>, FALSE, <<" ">> ) }

\* the documents of at most MaxElements elements
PageDocs == UNION {[1..n -> PageElements] : n \in 0..MaxElements}

\* the text of an element and of a document
Markup(el) ==
    <<"<">> \o el.tag \o el.attrs \o <<">">> \o el.inner \o <<"<", "/">> \o el.tag \o <<">">>

RECURSIVE Html(_)
Html(els) == IF els = <<>> THEN <<>> ELSE Markup(Head(els)) \o Html(Tail(els))

CspInit ==
    /\ impl \in {"server", "processor"}
    /\ disk = DiskOf(DocPlain, {})
    /\ faults = {}
    /\ files = EmptyMap
    /\ cspHashes = [scripts |-> <<>>, styles |-> <<>>]
    /\ pc = "start"
    /\ step = 0
    /\ pending = {}
    /\ resp = <<>>
    /\ js = NoJs
    /\ flight = EmptyMap
    /\ page = NoPage
    /\ menu = NoMenu
    /\ scan = NoScan
    /\ inbox = {}

\* the extraction on a document, then the policy stored under its key
Extract ==
    /\ pc \in {"start", "extracted"}
    /\ \E els \in PageDocs :
          /\ page' = [earlier |-> page.latest, latest |-> els]
          /\ cspHashes' = IF impl = "server"
                          THEN extractInlineContent(Html(els))
                          ELSE extractCSPHashes(Html(els))
    /\ files' = MapSet(files, CspKey,
                       IF impl = "server" THEN ServerGenerateCSP(cspHashes')
                       ELSE ProcessorGenerateCSP(cspHashes'))
    /\ pc' = IF pc = "start" THEN "extracted" ELSE "extracted again"
    /\ step' = step + 1
    /\ UNCHANGED <<inbox, scan, menu, flight, js, impl, disk, faults, pending, resp>>

CspNext == Extract

SpecCsp == CspInit /\ [][CspNext]_vars

\* the inner texts, without the space around them, of the elements of the
\* tag that have no src attribute, the empty ones left out
InlineTexts(els, tag) ==
    {Trim(els[k].inner) :
        k \in {i \in 1..Len(els) : els[i].tag = tag /\ ~els[i].src}} \ {<<>>}

\* the 'sha256-...' words of a directive, in their order
TokenList(directive) ==
    SelectSeq(directive.sources, LAMBDA s : s[1] = "'sha256-")

\* the directive holds one word for each of the texts, and no other
OneTokenEach(directive, texts) ==
    /\ \A i, j \in 1..Len(TokenList(directive)) :
          TokenList(directive)[i] = TokenList(directive)[j] => i = j
    /\ {TokenList(directive)[k] : k \in 1..Len(TokenList(directive))}
          = {Sha256Source(calculateHash(t)) : t \in texts}

\* C22: after an extraction the policy holds exactly one 'sha256-...' word
\* for each distinct non-empty inline body of the document given last: the
\* bodies of its scripts without src in the script directives only, those of
\* its styles in the style directives only, none for an empty body, none for
\* a script with src, and none left from the document given before.
C22_OneTokenPerInlineBody ==
    (pc \in {"extracted", "extracted again"}) =>
        /\ \E d \in 1..Len(files[CspKey]) : files[CspKey][d].name = "script-src"
        /\ \E d \in 1..Len(files[CspKey]) : files[CspKey][d].name = "style-src"
        /\ \A d \in 1..Len(files[CspKey]) :
              OneTokenEach(files[CspKey][d],
                  IF files[CspKey][d].name \in {"script-src", "script-src-elem"}
                  THEN InlineTexts(page.latest, <<"s", "c", "r", "i", "p", "t">>)
                  ELSE IF files[CspKey][d].name \in {"style-src", "style-src-elem"}
                  THEN InlineTexts(page.latest, <<"s", "t", "y", "l", "e">>)
                  ELSE {})

(***************************************************************************)
(* server.js minifyJS one loop iteration at a time: the first loop reads   *)
(* src at index i (counted from 1 here), the second reads the output of    *)
(* the first, and the replacements at the end give the result.  from is    *)
(* the index at which the literal being read opened, 0 outside a literal.  *)
(***************************************************************************)
\* the scripts with literals in them, and the scripts with comments
MaxLiteralLen == 6
MaxCommentLen == 5
LiteralAlphabet == {"\"", "'", Backtick, "\\", "a"}
CommentAlphabet == {"/", "*", "\n", "\"", "a"}

\* a script of one of the two kinds
IsScanScript(src) ==
    \/ Len(src) <= MaxLiteralLen
          /\ \A k \in 1..Len(src) : src[k] \in LiteralAlphabet
    \/ Len(src) <= MaxCommentLen
          /\ \A k \in 1..Len(src) : src[k] \in CommentAlphabet

\* let i = 0, ..., escape = false, and the same before the second loop
ScanPass(src, pass, text) ==
    [src |-> src, pass |-> pass, text |-> text, i |-> 1, st |-> ScanStart,
     from |-> 0]

ScanInit ==
    /\ scan = ScanPass(<<>>, "typing", <<>>)
    /\ inbox = {}
    /\ js = NoJs
    /\ flight = EmptyMap
    /\ page = NoPage
    /\ menu = NoMenu
    /\ impl = "server"
    /\ disk = DiskOf(DocPlain, {})
    /\ faults = {}
    /\ files = EmptyMap
    /\ cspHashes = [scripts |-> <<>>, styles |-> <<>>]
    /\ pc = "start"
    /\ step = 0
    /\ pending = {}
    /\ resp = <<>>

ScanRest == <<inbox, page, menu, flight, js, impl, disk, faults, files, cspHashes, pc, step, pending, resp>>

\* the script is written, a character at a time
ScanType ==
    /\ scan.pass = "typing"
    /\ \E c \in LiteralAlphabet \cup CommentAlphabet :
          /\ IsScanScript(Append(scan.src, c))
          /\ scan' = [scan EXCEPT !.src = Append(@, c)]
    /\ UNCHANGED ScanRest

\* minifyJS(src) is called
ScanEnter ==
    /\ scan.pass = "typing"
    /\ scan' = ScanPass(scan.src, "first", scan.src)
    /\ UNCHANGED ScanRest

\* the character read and the one after it
ScanCh == scan.text[scan.i]
ScanNextCh == CharAt(scan.text, scan.i + 1)
ScanInLoop(pass) ==
    scan.pass = pass /\ scan.i <= Len(scan.text)
ScanOutside == ~scan.st.inStr /\ ~scan.st.inTemplate

\* if (inStr) {...} and if (inTemplate) {...}, in either loop
ScanLiteral ==
    /\ ScanInLoop("first") \/ ScanInLoop("second")
    /\ ~ScanOutside
    /\ scan' = [scan EXCEPT
                   !.st   = ScanInside(scan.st, ScanCh),
                   !.i    = @ + 1,
                   !.from = IF ScanInside(scan.st, ScanCh).inStr
                               \/ ScanInside(scan.st, ScanCh).inTemplate
                            THEN @ ELSE 0]
    /\ UNCHANGED ScanRest

\* if (ch === '"' || ch === "'") {...} and if (ch === "`") {...}
ScanOpens ==
    /\ ScanInLoop("first") \/ ScanInLoop("second")
    /\ ScanOutside
    /\ ScanCh \in {"\"", "'", Backtick}
    /\ scan' = [scan EXCEPT !.st = ScanOpen(scan.st, ScanCh), !.i = @ + 1,
                            !.from = scan.i]
    /\ UNCHANGED ScanRest

\* if (ch === "/" && next === "*") {...}
ScanBlockComment ==
    /\ ScanInLoop("first")
    /\ ScanOutside
    /\ ScanCh = "/" /\ ScanNextCh = "*"
    /\ scan' = [scan EXCEPT !.i = SkipBlock(scan.text, scan.i + 2) + 2]
    /\ UNCHANGED ScanRest

\* if (ch === "/" && next === "/") {...}
ScanLineComment ==
    /\ ScanInLoop("first")
    /\ ScanOutside
    /\ ScanCh = "/" /\ ScanNextCh = "/"
    /\ scan' = [scan EXCEPT !.i = SkipLine(scan.text, scan.i + 2)]
    /\ UNCHANGED ScanRest

\* out += ch; i++
ScanCopy ==
    /\ ScanInLoop("first")
    /\ ScanOutside
    /\ ScanCh \notin {"\"", "'", Backtick}
    /\ ~(ScanCh = "/" /\ ScanNextCh \in {"*", "/"})
    /\ scan' = [scan EXCEPT !.st.out = @ \o <<ScanCh>>, !.i = @ + 1]
    /\ UNCHANGED ScanRest

\* if (/\s/.test(ch)) {...} of the second loop
ScanSpaces ==
    /\ ScanInLoop("second")
    /\ ScanOutside
    /\ IsSpace(ScanCh)
    /\ scan' = [scan EXCEPT
                   !.st.out = IF \/ IsIdentChar(LastChar(scan.st.out))
                                    /\ IsIdentChar(CharAt(scan.text,
                                           SkipSpaces(scan.text, scan.i + 1)))
                                 \/ LastChar(scan.st.out) = "return"
                                    /\ IsIdentOrQuote(CharAt(scan.text,
                                           SkipSpaces(scan.text, scan.i + 1)))
                              THEN @ \o <<" ">> ELSE @,
                   !.i      = SkipSpaces(scan.text, scan.i + 1)]
    /\ UNCHANGED ScanRest

\* the last lines of the second loop: a space before punctuation goes
ScanPunct ==
    /\ ScanInLoop("second")
    /\ ScanOutside
    /\ ScanCh \notin {"\"", "'", Backtick}
    /\ ~IsSpace(ScanCh)
    /\ scan' = [scan EXCEPT
                   !.st.out = (IF ScanCh \in JsPunct /\ EndsWith(@, <<" ">>)
                               THEN SubSeq(@, 1, Len(@) - 1) ELSE @)
                                 \o <<ScanCh>>,
                   !.i      = @ + 1]
    /\ UNCHANGED ScanRest

\* the first loop is left: the second starts on its output
ScanSecond ==
    /\ scan.pass = "first" /\ scan.i > Len(scan.text)
    /\ scan' = ScanPass(scan.src, "second", scan.st.out)
    /\ UNCHANGED ScanRest

\* the second loop is left with finalOut, of which minifyJS returns
\* finalOut.replace(...)....trim()
ScanReturn ==
    /\ scan.pass = "second" /\ scan.i > Len(scan.text)
    /\ scan' = [scan EXCEPT !.pass = "returned", !.text = scan.st.out]
    /\ UNCHANGED ScanRest

\* what minifyJS returns
ScanResult == JsTail(scan.text)

ScanNext ==
    \/ ScanType
    \/ ScanEnter
    \/ ScanLiteral
    \/ ScanOpens
    \/ ScanBlockComment
    \/ ScanLineComment
    \/ ScanCopy
    \/ ScanSpaces
    \/ ScanPunct
    \/ ScanSecond
    \/ ScanReturn

SpecScan == ScanInit /\ [][ScanNext]_vars

\* minifyJS runs on: every loop iteration that can be taken is taken in the end
SpecScanRuns == SpecScan /\ WF_vars(ScanNext)

\* what the iterations return is what minifyJS returns
ScanReturnsMinified ==
    scan.pass = "returned" => ScanResult = ServerMinifyJS(scan.src)

RECURSIVE BackslashRun(_, _, _)
\* how many backslashes stand right before index i of text, after index from
BackslashRun(text, from, i) ==
    IF i - 1 > from /\ text[i - 1] = "\\"
    THEN 1 + BackslashRun(text, from, i - 1)
    ELSE 0

\* C23: in both loops of server.js minifyJS, a character read inside a string
\* or template literal closes the literal exactly when it is the quote that
\* opened it and the backslashes right before it, counted from the opening
\* quote, are even in number: a quote after an unescaped backslash does not
\* close, another kind of quote does not close, and backslashes of an
\* earlier literal do not count for the first character of the next.
C23_EscapeHandling ==
    [][(/\ scan.pass \in {"first", "second"}
        /\ scan.i <= Len(scan.text)
        /\ (scan.st.inStr \/ scan.st.inTemplate))
       => ((~scan'.st.inStr /\ ~scan'.st.inTemplate)
            <=> (/\ scan.text[scan.i] = scan.text[scan.from]
                 /\ BackslashRun(scan.text, scan.from, scan.i) % 2 = 0))]_vars

\* a string closed right after two backslashes, then a string closed by its
\* first character, read to the end by the second loop
C23_Witness ==
    /\ scan.pass = "second"
    /\ scan.text = <<"\"", "\\", "\\", "\"", "'", "'">>
    /\ scan.i = 7
    /\ scan.st.out = scan.text
    /\ ~scan.st.inStr /\ ~scan.st.inTemplate /\ ~scan.st.escape

\* a block comment opens at the index read and is closed nowhere after it
ScanUnterminatedBlock ==
    /\ scan.pass = "first"
    /\ scan.i <= Len(scan.text)
    /\ ~scan.st.inStr /\ ~scan.st.inTemplate
    /\ scan.text[scan.i] = "/" /\ CharAt(scan.text, scan.i + 1) = "*"
    /\ \A k \in (scan.i + 2)..(Len(scan.text) - 1) :
          ~(scan.text[k] = "*" /\ scan.text[k + 1] = "/")

\* C27: server.js minifyJS returns on every script, whether its last string,
\* template literal, block comment or line comment is closed or not; every
\* iteration of either loop moves the index read forward; and an
\* unterminated block comment takes the rest of the script with it, none of
\* which is copied.
C27_ScannerTerminates ==
    /\ <>(scan.pass = "returned")
    /\ [][(scan.pass \in {"first", "second"} /\ scan'.pass = scan.pass)
             => scan'.i > scan.i]_vars
    /\ [][ScanUnterminatedBlock
             => (scan'.i > Len(scan.text) /\ scan'.st.out = scan.st.out)]_vars

\* minifyJS has returned on a script that ends inside a block comment, in
\* a "*": what stood before the comment is all that is left
C27_Witness ==
    /\ scan.pass = "returned"
    /\ Len(scan.src) = 5
    /\ SubSeq(scan.src, 1, 3) = <<"a", "/", "*">>
    /\ scan.src[5] = "*"
    /\ ScanResult = <<"a">>

(***************************************************************************)
(* Requests handled side by side.  A request comes in at any time after    *)
(* listen(); its handler is called later, in any order with the handlers   *)
(* of the other requests that have come in, and runs to its res.end()      *)
(* without giving way (both handlers are synchronous).  resp is the        *)
(* response written last, until it has gone out.                           *)
(***************************************************************************)
\* the requests that may wait for their handler at a time
MaxInbox == 2

ServeUrls == {<<"_", "_", "c", "s", "p", "_", "_">>, <<"/">>, <<"/", "r", "o", "b", "o", "t", "s", ".", "t", "x", "t">>, <<"/", "n", "o", "t", "e", "s", ".", "t", "x", "t">>, <<"/", "m", "i", "s", "s", "i", "n", "g">>}
ServeEncodings == {<<>>, <<<<"b", "r">>>>, <<<<"g", "z", "i", "p">>>>}
ServeRequests ==
    {[url |-> u, headers |-> HeadersOf(ae, <<>>)] :
        u \in ServeUrls, ae \in ServeEncodings}
        \cup {[url |-> <<"/", "r", "o", "b", "o", "t", "s", ".", "t", "x", "t">>, headers |-> HeadersOf(<<>>, <<t>>)] :
                 t \in TagsFor(<<"/", "r", "o", "b", "o", "t", "s", ".", "t", "x", "t">>)}

ServeInit ==
    /\ impl \in {"server", "processor"}
    /\ \E absent \in {{}, {<<"r", "o", "b", "o", "t", "s", ".", "t", "x", "t">>}, {<<"i", "n", "d", "e", "x", ".", "h", "t", "m", "l">>}} :
          disk = DiskOf(DocInline, absent)
    /\ faults = {}
    /\ files = EmptyMap
    /\ cspHashes = [scripts |-> <<>>, styles |-> <<>>]
    /\ pc = "start"
    /\ step = 0
    /\ pending = {}
    /\ resp = <<>>
    /\ js = NoJs
    /\ flight = EmptyMap
    /\ page = NoPage
    /\ menu = NoMenu
    /\ scan = NoScan
    /\ inbox = {}

\* a request comes in
Arrive ==
    /\ pc = "listening"
    /\ Cardinality(inbox) < MaxInbox
    /\ \E req \in ServeRequests \ inbox : inbox' = inbox \cup {req}
    /\ UNCHANGED <<scan, page, menu, flight, js, impl, disk, faults, files, cspHashes, pc, step, pending, resp>>

\* the 'request' event of a request that has come in can be emitted: the
\* server listens, and no handler is running, since a handler returns
\* before anything else runs
CanHandle(req) == pc = "listening" /\ req \in inbox

\* the handler is called with a request that has come in
HandleOf(req) ==
    /\ CanHandle(req)
    /\ resp' = <<req, IF impl = "server" THEN handler(req, NewResponse)
                      ELSE handleRequest(req, NewResponse)>>
    /\ files' = TableAfterRequest(req)
    /\ inbox' = inbox \ {req}
    /\ UNCHANGED <<scan, page, menu, flight, js, impl, disk, faults, cspHashes, pc, step, pending>>

Handle == \E req \in inbox : HandleOf(req)

ServeNext ==
    \/ ServerStart
    \/ ServerLoad
    \/ ServerListen
    \/ ProcessorStart
    \/ ProcessorTask
    \/ ProcessorListen
    \/ Arrive
    \/ Handle
    \/ Sent

SpecServe == ServeInit /\ [][ServeNext]_vars

\* a response object as the handler is given it
FreshResponse == [statusCode |-> 200, headers |-> EmptyMap, body |-> <<>>]

\* the response to req made of the request, the table and the disk alone
ResponseAlone(req) ==
    IF impl = "server" THEN handler(req, FreshResponse)
    ELSE handleRequest(req, FreshResponse)

LookupKey(req) == RootAlias(UrlPathname(req.url))

\* the requests that wait for their handler and the one answered last
KnownRequests == inbox \cup (IF resp = <<>> THEN {} ELSE {resp[1]})

\* C25: the policy lies in the table of the assets under the key "__csp__",
\* which no request is looked up with: every key a request is looked up
\* with begins with "/", so does every key of an asset, and "__csp__" does
\* not; what is answered from the table is answered from an asset; and no
\* step of the build puts the policy under the key of an asset, an asset
\* under the key of the policy, or changes the policy once it is stored.
C25_PolicyKeyUnreachable ==
    /\ [](/\ CspKey[1] # "/"
          /\ \A k \in DOMAIN files : k = CspKey \/ k[1] = "/"
          /\ pc = "listening" =>
                /\ CspKey \in DOMAIN files
                /\ files[CspKey] = IF impl = "server"
                                   THEN ServerGenerateCSP(cspHashes)
                                   ELSE ProcessorGenerateCSP(cspHashes)
          /\ \A req \in KnownRequests :
                LookupKey(req)[1] = "/" /\ LookupKey(req) # CspKey)
    /\ [][/\ \A k \in DOMAIN files \ {CspKey} :
                k \in DOMAIN files' /\ files'[k].body = files[k].body
          /\ CspKey \in DOMAIN files => files'[CspKey] = files[CspKey]]_vars

\* a request for "__csp__" has been answered 404 by a server whose table
\* holds the policy and assets
C25_Witness ==
    /\ pc = "listening"
    /\ resp # <<>>
    /\ Req.url = CspKey
    /\ Res.statusCode = 404
    /\ CspKey \in DOMAIN files
    /\ IndexKey \in DOMAIN files

\* the entry has a tag for each compressed variant it has, and for no other
TagsPaired(entry) ==
    /\ entry.etag # NoTag
    /\ entry.brEtag # NoTag <=> entry.br # NoBuffer
    /\ entry.gzEtag # NoTag <=> entry.gz # NoBuffer

\* C26: every entry of the table and every entry made for a fallback read
\* has brEtag exactly when it has br and gzEtag exactly when it has gz, and
\* every response that serves an entry, whichever variant was chosen,
\* carries an ETag header that is a tag.
C26_VariantTagsPaired ==
    /\ \A e \in Entries : TagsPaired(e)
    /\ (Answered /\ Res.statusCode \in {200, 304}) =>
          /\ TagsPaired(ServedEntry(Req.url))
          /\ "ETag" \in DOMAIN Res.headers
          /\ Res.headers["ETag"] # NoTag
          /\ Res.headers["ETag"] \in
                {ServedEntry(Req.url).etag, ServedEntry(Req.url).brEtag,
                 ServedEntry(Req.url).gzEtag}

\* the Brotli variant of an entry that has no Gzip variant has been sent
C26_Witness ==
    /\ Answered
    /\ Res.statusCode = 200
    /\ "Content-Encoding" \in DOMAIN Res.headers
    /\ Res.headers["Content-Encoding"] = "br"
    /\ ServedEntry(Req.url).gz = NoBuffer
    /\ ServedEntry(Req.url).br # NoBuffer

(***************************************************************************)
(* The menu of the page script (script.js): nav#primaryNav has the class   *)
(* is-open or not, button#menuToggle has aria-expanded "true", "false" or  *)
(* no such attribute ("none"), as the document was written.  A click has   *)
(* a target: the button (or an element inside it), a link of the nav, the  *)
(* nav outside its links, or an element outside both; its listeners run    *)
(* from the target outwards.  The button may stand inside the nav or not.  *)
(***************************************************************************)
\* the events a run of the page script sees at most
MaxEvents == 3

ClickTargets == {"button", "link", "nav", "outside"}
Keys == {"Escape", "Enter"}
MenuEvents ==
    {<<"click", t>> : t \in ClickTargets} \cup {<<"keydown", k>> : k \in Keys}

\* a faulty closeMenu: the class goes, aria-expanded stays
CloseClassOnly(m) == [m EXCEPT !.open = FALSE]

\* closeMenu, openMenu and toggleMenu
closeMenu(m) == [m EXCEPT !.open = FALSE, !.expanded = "false"]
openMenu(m)  == [m EXCEPT !.open = TRUE,  !.expanded = "true"]
toggleMenu(m) == IF m.open THEN closeMenu(m) ELSE openMenu(m)

\* nav.contains(e.target) and menuBtn.contains(e.target)
NavContains(m, target) ==
    target \in {"link", "nav"} \/ (target = "button" /\ m.btnInNav)
BtnContains(target) == target = "button"

\* the listeners of "click" on the button, on the nav and on the document,
\* and the listener of "keydown"
OnButtonClick(m, target) == IF BtnContains(target) THEN toggleMenu(m) ELSE m
OnNavClick(m, target) ==
    IF NavContains(m, target) /\ target = "link" THEN closeMenu(m) ELSE m
OnDocumentClick(m, target) ==
    IF ~NavContains(m, target) /\ ~BtnContains(target) THEN closeMenu(m) ELSE m
OnKeydown(m, key) == IF key = "Escape" THEN closeMenu(m) ELSE m

\* a click goes to the listeners from its target outwards
DispatchClick(m, target) ==
    OnDocumentClick(OnNavClick(OnButtonClick(m, target), target), target)

MenuInit ==
    /\ \E open \in BOOLEAN, expanded \in {"none", "true", "false"},
          btnInNav \in BOOLEAN :
          menu = [open |-> open, expanded |-> expanded, btnInNav |-> btnInNav,
                  events |-> <<>>]
    /\ impl = "server"
    /\ disk = DiskOf(DocPlain, {})
    /\ faults = {}
    /\ files = EmptyMap
    /\ cspHashes = [scripts |-> <<>>, styles |-> <<>>]
    /\ pc = "start"
    /\ step = 0
    /\ pending = {}
    /\ resp = <<>>
    /\ js = NoJs
    /\ flight = EmptyMap
    /\ page = NoPage
    /\ scan = NoScan
    /\ inbox = {}

MenuRest == <<inbox, scan, page, flight, js, impl, disk, faults, files, cspHashes, pc, step, pending, resp>>

MenuClick ==
    /\ Len(menu.events) < MaxEvents
    /\ \E target \in ClickTargets :
          menu' = [DispatchClick(menu, target) EXCEPT
                      !.events = Append(@, <<"click", target>>)]
    /\ UNCHANGED MenuRest

MenuKeydown ==
    /\ Len(menu.events) < MaxEvents
    /\ \E key \in Keys :
          menu' = [OnKeydown(menu, key) EXCEPT
                      !.events = Append(@, <<"keydown", key>>)]
    /\ UNCHANGED MenuRest

MenuNext == MenuClick \/ MenuKeydown

SpecMenu == MenuInit /\ [][MenuNext]_vars

\* the events of the menu: a click on the button, on a link of the nav or
\* outside nav and button, and the Escape key
IsMenuEvent(e) ==
    e \in {<<"click", "button">>, <<"click", "link">>, <<"click", "outside">>,
           <<"keydown", "Escape">>}

\* C28: once one of the events of the menu has been handled, the nav has
\* the class is-open exactly when the button's aria-expanded is "true",
\* whatever the document said at first and whatever events followed; a
\* click on a link of the nav, a click outside nav and button and the
\* Escape key leave the menu closed, and a click on the button turns an
\* open menu into a closed one and a closed one into an open one.
C28_MenuCoherent ==
    /\ []((\E k \in 1..Len(menu.events) : IsMenuEvent(menu.events[k]))
            => /\ menu.open <=> menu.expanded = "true"
               /\ ~menu.open <=> menu.expanded = "false")
    /\ [][Len(menu'.events) = Len(menu.events) + 1
             => LET e == menu'.events[Len(menu'.events)]
                IN  /\ (IsMenuEvent(e) /\ e # <<"click", "button">>)
                          => ~menu'.open
                    /\ e = <<"click", "button">>
                          => menu'.open = ~menu.open]_vars

\* after an event that is none of the menu's, a click on the button, which
\* stands inside the nav, and then the Escape key, the menu is closed
C28_Witness ==
    /\ Len(menu.events) = 3
    /\ ~IsMenuEvent(menu.events[1])
    /\ menu.events[2] = <<"click", "button">>
    /\ menu.events[3] = <<"keydown", "Escape">>
    /\ menu.btnInNav
    /\ ~menu.open /\ menu.expanded = "false"
=============================================================================
